---- MODULE Spec2Model ----
(***************************************************************************)
(* State-machine model of go-core-stack/core: the reconciliation pipeline, *)
(* the store-anchored lock table, the provider/observer fan-out, the       *)
(* shared-budget rate limiter and the store collection's UpdateOne.        *)
(* Each subsystem has its own specification over its own variables; the    *)
(* variables of the other subsystems stay at their initial values.         *)
(***************************************************************************)
EXTENDS Integers, Sequences, FiniteSets, TLC

(***************************************************************************)
(* Bounds of the model.                                                    *)
(***************************************************************************)
\* number of distinct keys offered to a pipeline
NumKeys == 3
\* goroutines calling Pipeline.Enqueue from outside (watch callbacks)
NumProducers == 1
\* deferred re-enqueue goroutines that may be alive at once
MaxTimers == 1
\* capacity of Pipeline.pChannel; the source uses 1024, scaled down here so
\* that a full channel is reachable
bufferLength == 2

\* processes sharing the store, and keys of one lock table
NumProcs == 2
NumLockKeys == 2
\* lock handles one process may hold open for one key
MaxHandles == 1
\* db: _id values and document values used by the callers
NumStoreKeys == 3
NumValues == 2
\* provider registry: external keys, owners creating providers, controllers
NumExtKeys == 1
NumProvOwners == 2
NumControllers == 2
\* rate: limiter keys, Limiter objects ever created per key and in all,
\* consumers, and
\* the width of the integers (int64 in the source, scaled down)
NumRateKeys == 2
MaxGen == 2
MaxLimiters == 2
NumConsumers == 2
IntBits == 8
\* manager: keys of the parent store, controller names
NumMgrKeys == 2
NumMgrNames == 2
\* table: keys and entry values of the collection
NumTableKeys == 1
NumTableValues == 2
\* singletons: ProviderTable objects that can be built, lock table names
MaxTables == 2
NumLockTables == 2
\* document keys of the watched table, and key objects the watch may allocate
NumDocKeys == 2
MaxKeyObjects == 4

PKeys == 1..NumKeys
Producers == 1..NumProducers
Timers == (NumProducers + 1)..(NumProducers + MaxTimers)
\* the dequeue loop is enqueuer 0 when it re-enqueues after an error
Loop == 0
Enqueuers == {Loop} \cup Producers \cup Timers
NoKey == 0

VARIABLES
    \* ---- reconciler.Pipeline ----
    ctxDone,      \* p.ctx is cancelled
    pMap,         \* p.pMap, used as a set of keys
    pChannel,     \* p.pChannel, a FIFO of keys, capacity bufferLength
    epc,          \* per enqueuer: position inside Pipeline.Enqueue
    ekey,         \* per enqueuer: the key it is enqueueing
    lpc,          \* position of the dequeue loop (Pipeline.initialize)
    lkey,         \* key the dequeue loop is working on
    lres,         \* what reconciler(k) returned to the loop
    eret,         \* the error the Enqueue step just taken returned, and to whom
    \* ---- sync: owner table and one lock table, seen by every process ----
    ownerState,   \* per process: its ownerTable singleton
    running,      \* per process: it has neither panicked nor shut down
    ownerCol,     \* owner-table collection: names that have a record
    located,      \* per process: LocateLockTable has set up its watches
    lockCol,      \* lock collection: records [key, owner]
    hnd,          \* per process and key: open handles from TryAcquire
    ret,          \* the error the step just taken returned to its caller, if any,
                  \* or the nil of a Close
    ownEv,        \* per process: owner delete events not yet handled
    lockEv,       \* per process: lock change events not yet handled
    cbpc,         \* per process: position inside LockTable.Callback
    cbOwner,      \* per process: data.Owner read by LockTable.Callback
    \* ---- db: one mongoCollection ----
    docs,         \* per _id: the stored value, NoDoc when there is no document
    sret,         \* what the StoreCollection call just made returned
    \* ---- sync: provider table and the observer table of one process ----
    provCol,      \* provider collection: documents [extKey, owner]
    provOwners,   \* owner names that have a record in the owner table
    ptLocated,    \* LocateProviderTable has run in the observing process
    provEv,       \* provider change events the watch has not handled yet
    tpc,          \* per callback goroutine: position in ProviderTable.Callback
    tkey,         \* per callback goroutine: the document key it was called with
    tcnt,         \* per callback goroutine: Count has found a provider of the key
    rlist,        \* entries of the replay's FindMany not yet fed to Callback
    providers,    \* observerTable.providers, a set of external keys
    regpc,        \* per controller: position in ManagerImpl.Register
    note,         \* the Pipeline.Enqueue calls made by the step just taken
    probe,        \* key in the observer set whose provider was closed while another
                  \* remained, until a provider of the key is created or closed;
                  \* settled: no callback held an unapplied count at the close
    \* ---- rate: one LimitManager, its Limiter objects and their consumers ----
    rate,         \* m.rate, the aggregate budget
    committed,    \* m.committed
    limiters,     \* m.limiters: per key the registered Limiter object, or none
    inUse,        \* m.inUse: per key the active Limiter object, or none
    created,      \* per key: number of Limiter objects created so far
    lrate,        \* per Limiter object: l.rate
    lburst,       \* per Limiter object: l.burst
    limit,        \* per Limiter object: the limit of l.limiter
    usage,        \* per Limiter object: l.usage
    cpc,          \* per consumer: position inside Limiter.SetInUse
    clim,         \* per consumer: the Limiter object it uses
    rret,         \* what the LimitManager call just made returned
    \* ---- reconciler: one ManagerImpl ----
    mparent,      \* m.parent is set
    mctxDone,     \* m.ctx, which every pipeline of the manager shares, is cancelled
    parentKeys,   \* the keys m.parent.ReconcilerGetAllKeys() returns
    mcontrollers, \* m.controllers: per name no entry, an entry without
                  \* pipeline ("stored"), or an entry with its pipeline ("ready")
    bpc,          \* per name: position of the goroutine Register starts
    bleft,        \* per name: keys that goroutine has still to enqueue
    bsnap,        \* per name: the keys ReconcilerGetAllKeys returned to it
    npc,          \* position of the goroutine calling NotifyCallback
    nkey,         \* the key NotifyCallback was called with
    nstart,       \* names whose Register had returned nil when the call began
    nmust,        \* names in m.controllers when the call began
    nvisited,     \* names on whose pipeline the call has enqueued the key
    menq,         \* per name: keys the manager has enqueued on its pipeline
    mpanic,       \* the process has panicked
    mret,         \* what the ManagerImpl call just made returned
    \* ---- table: a Table and a CachedTable over one collection ----
    tcol,         \* per table: t.col is set
    tmode,        \* caching mode the CachedTable was initialized with
    tdocs,        \* the collection: per key the stored entry, or NoDoc
    cache,        \* t.cache of the CachedTable: per key the entry, or NoDoc
    tev,          \* keys with a change event the watch has not delivered yet
    wpc,          \* position of the watch goroutine in CachedTable.callback
    wkey,         \* the key that callback was called with
    went,         \* the entry that callback read from the store
    ppc,          \* position of CachedTable.Initialize in its preload loop
    plist,        \* keys of the preload list not yet handled
    pkey,         \* the key the preload is handling
    pent,         \* the entry the preload read for it
    tseen,        \* per key: whether a callback has handled an event of the key,
                  \* and the entry the latest such callback read from the store
    cacheMu,      \* how the step just taken accessed t.cache, if it did, and the
                  \* hold on t.cacheMu it made the access under
    tret,         \* what the table call just made returned
    \* ---- sync: the package-level singletons of one process ----
    ownerTable,   \* the ownerTable variable: nil, or set with allocateOwner
                  \* failed, or set and ready
    octxDone,     \* the context given to InitializeOwner is cancelled
    ownerRecs,    \* owner records of this process in the owner collection
    heartbeats,   \* heartbeat goroutines of this process
    providerTable, \* the providerTable variable
    ptCreated,    \* ProviderTable objects built so far, each with its own
                  \* observer set, watches and replay goroutine
    lockTables,   \* the lockTables map: per name its LockTable, or none
    gret,         \* what the call just made returned
    gheld,        \* the package mutex the call just made held, with the store
                  \* calls it made while holding it
    \* ---- table watch: decoded key objects and the pipeline they reach ----
    kobj,         \* per key object: the document key it was decoded to, NoKey
                  \* while the object is not allocated
    kEvents,      \* change events (document keys) the stream has still to deliver
    kMap,         \* p.pMap of the controller's pipeline: a set of key objects
    kChannel,     \* p.pChannel of that pipeline: a FIFO of key objects
    kpc,          \* position of the watch goroutine: at stream.Next or at the send
    ksend         \* the key object the watch goroutine is sending

pipeVars == <<ctxDone, pMap, pChannel, epc, ekey, lpc, lkey, lres, eret>>
lockVars == <<ownerState, running, ownerCol, located, lockCol, hnd, ret,
              ownEv, lockEv, cbpc, cbOwner>>

storeVars == <<docs, sret>>
obsVars == <<provCol, provOwners, ptLocated, provEv, tpc, tkey, tcnt,
             rlist, providers, regpc, note, probe>>

rateVars == <<rate, committed, limiters, inUse, created, lrate, lburst, limit,
              usage, cpc, clim, rret>>

mgrVars == <<mparent, mctxDone, parentKeys, mcontrollers, bpc, bleft, bsnap,
             npc, nkey, nstart, nmust, nvisited, menq, mpanic, mret>>

tblVars == <<tcol, tmode, tdocs, cache, tev, wpc, wkey, went, ppc, plist, pkey,
             pent, tseen, cacheMu, tret>>

regVars == <<ownerTable, octxDone, ownerRecs, heartbeats, providerTable,
             ptCreated, lockTables, gret, gheld>>

wkVars == <<kobj, kEvents, kMap, kChannel, kpc, ksend>>

vars == <<pipeVars, lockVars, storeVars, obsVars, rateVars, mgrVars, tblVars, regVars, wkVars>>

nonPipeVars == <<lockVars, storeVars, obsVars, rateVars, mgrVars, tblVars, regVars, wkVars>>
nonLockVars == <<pipeVars, storeVars, obsVars, rateVars, mgrVars, tblVars, regVars, wkVars>>
nonStoreVars == <<pipeVars, lockVars, obsVars, rateVars, mgrVars, tblVars, regVars, wkVars>>
nonObsVars == <<pipeVars, lockVars, storeVars, rateVars, mgrVars, tblVars, regVars, wkVars>>
nonRateVars == <<pipeVars, lockVars, storeVars, obsVars, mgrVars, tblVars, regVars, wkVars>>
nonMgrVars == <<pipeVars, lockVars, storeVars, obsVars, rateVars, tblVars, regVars, wkVars>>
nonTblVars == <<pipeVars, lockVars, storeVars, obsVars, rateVars, mgrVars, regVars, wkVars>>
nonRegVars == <<pipeVars, lockVars, storeVars, obsVars, rateVars, mgrVars, tblVars, wkVars>>
nonWkVars == <<pipeVars, lockVars, storeVars, obsVars, rateVars, mgrVars, tblVars, regVars>>

(***************************************************************************)
(* reconciler.Pipeline                                                     *)
(***************************************************************************)
SeqToSet(s) == {s[i] : i \in 1..Len(s)}

\* a send on the buffered channel can proceed only while it has room
ChanHasRoom(ch) == Len(ch) < bufferLength

\* Enqueue returns to its caller (lines 43 and 58); when the caller is the
\* dequeue loop, the loop goes back to its select
EnqueueReturn(e) ==
    /\ epc' = [epc EXCEPT ![e] = "idle"]
    /\ ekey' = [ekey EXCEPT ![e] = NoKey]
    /\ IF e = Loop
          THEN lpc' = "select" /\ lkey' = NoKey /\ lres' = "none"
          ELSE UNCHANGED <<lpc, lkey, lres>>

\* no Enqueue call has just returned an error
NoERet == [e |-> NoKey, err |-> "none"]

CtxErrNil(done) == FALSE

\* p.ctx.Err() != nil, line 42
CtxErr(done) == done

\* Enqueue, lines 42-44: if p.ctx.Err() != nil return it
EnqueueCheck(e) ==
    /\ epc[e] = "check"
    /\ IF CtxErr(ctxDone)
          THEN /\ EnqueueReturn(e)
               /\ eret' = [e |-> e, err |-> "ctx"]
          ELSE /\ epc' = [epc EXCEPT ![e] = "loadOrStore"]
               /\ eret' = NoERet
               /\ UNCHANGED <<ekey, lpc, lkey, lres>>
    /\ UNCHANGED <<ctxDone, pMap, pChannel>>
    /\ UNCHANGED nonPipeVars

LoadedNever(m, k) == FALSE

\* what LoadOrStore decides: TRUE when the key was already in the map
Loaded(m, k) == k \in m

pMapUnchanged(m, k) == m

\* the map LoadOrStore leaves when the key was not in it: the key is stored
pMapStored(m, k) == m \cup {k}

\* Enqueue, lines 51-52: _, loaded := p.pMap.LoadOrStore(k, nil)
EnqueueLoadOrStore(e) ==
    /\ epc[e] = "loadOrStore"
    /\ IF Loaded(pMap, ekey[e])
          THEN /\ epc' = [epc EXCEPT ![e] = "absorbed"]
               /\ UNCHANGED pMap
          ELSE /\ pMap' = pMapStored(pMap, ekey[e])
               /\ epc' = [epc EXCEPT ![e] = "send"]
    /\ UNCHANGED <<ctxDone, pChannel, ekey, lpc, lkey, lres>>
    /\ eret' = NoERet
    /\ UNCHANGED nonPipeVars

\* Enqueue, lines 52 and 58: loaded, so nothing is pushed; return nil
EnqueueAbsorbed(e) ==
    /\ epc[e] = "absorbed"
    /\ EnqueueReturn(e)
    /\ UNCHANGED <<ctxDone, pMap, pChannel>>
    /\ eret' = NoERet
    /\ UNCHANGED nonPipeVars

\* Enqueue, line 55: p.pChannel <- k, which blocks while the channel is full
EnqueueSend(e) ==
    /\ epc[e] = "send"
    /\ ChanHasRoom(pChannel)
    /\ pChannel' = Append(pChannel, ekey[e])
    /\ EnqueueReturn(e)
    /\ UNCHANGED <<ctxDone, pMap>>
    /\ eret' = NoERet
    /\ UNCHANGED nonPipeVars

\* an outside caller (NotifyCallback, Register's bootstrap) calls Enqueue(k)
ProducerCall(e, k) ==
    /\ e \in Producers
    /\ epc[e] = "idle"
    /\ epc' = [epc EXCEPT ![e] = "check"]
    /\ ekey' = [ekey EXCEPT ![e] = k]
    /\ UNCHANGED <<ctxDone, pMap, pChannel, lpc, lkey, lres>>
    /\ eret' = NoERet
    /\ UNCHANGED nonPipeVars

\* initialize, lines 65-69: select between ctx.Done() and a receive
LoopStop ==
    /\ lpc = "select"
    /\ ctxDone
    /\ lpc' = "stopped"
    /\ UNCHANGED <<ctxDone, pMap, pChannel, epc, ekey, lkey, lres>>
    /\ eret' = NoERet
    /\ UNCHANGED nonPipeVars

LoopReceive ==
    /\ lpc = "select"
    /\ Len(pChannel) > 0
    /\ lkey' = Head(pChannel)
    /\ pChannel' = Tail(pChannel)
    /\ lpc' = "delete"
    /\ UNCHANGED <<ctxDone, pMap, epc, ekey, lres>>
    /\ eret' = NoERet
    /\ UNCHANGED nonPipeVars

\* initialize, line 74: p.pMap.Delete(k)
LoopDelete ==
    /\ lpc = "delete"
    /\ pMap' = pMap \ {lkey}
    /\ lpc' = "reconcile"
    /\ UNCHANGED <<ctxDone, pChannel, epc, ekey, lkey, lres>>
    /\ eret' = NoERet
    /\ UNCHANGED nonPipeVars

\* initialize, line 77: res, err := p.reconciler(k); the controller decides
\* among an error, a RequeueAfter and a plain success
Outcomes == {"err", "requeue", "ok"}

FreeTimers == {t \in Timers : epc[t] = "idle"}

\* (a RequeueAfter result is offered only while the model has a goroutine
\* left for the deferred re-enqueue)
LoopReconcile(o) ==
    /\ lpc = "reconcile"
    /\ o \in Outcomes
    /\ o = "requeue" => FreeTimers # {}
    /\ lres' = o
    /\ lpc' = "handle"
    /\ UNCHANGED <<ctxDone, pMap, pChannel, epc, ekey, lkey>>
    /\ eret' = NoERet
    /\ UNCHANGED nonPipeVars

SpawnsTimerNever(res) == FALSE

\* the goroutine of lines 85-89 is started for a RequeueAfter result
SpawnsTimer(res) == res = "requeue"

\* the loop calls p.Enqueue(k) itself after an error (line 82)
RetriesNow(res) == res = "err"

\* initialize, lines 78-91: act on the result of the reconcile
LoopHandle ==
    /\ lpc = "handle"
    /\ IF RetriesNow(lres)
          THEN /\ lpc' = "enqueue"
               /\ epc' = [epc EXCEPT ![Loop] = "check"]
               /\ ekey' = [ekey EXCEPT ![Loop] = lkey]
               /\ UNCHANGED <<lkey, lres>>
          ELSE IF SpawnsTimer(lres)
          THEN /\ LET t == CHOOSE x \in FreeTimers : \A y \in FreeTimers : x <= y
                  IN /\ epc' = [epc EXCEPT ![t] = "sleep"]
                     /\ ekey' = [ekey EXCEPT ![t] = lkey]
               /\ lpc' = "select" /\ lkey' = NoKey /\ lres' = "none"
          ELSE /\ lpc' = "select" /\ lkey' = NoKey /\ lres' = "none"
               /\ UNCHANGED <<epc, ekey>>
    /\ UNCHANGED <<ctxDone, pMap, pChannel>>
    /\ eret' = NoERet
    /\ UNCHANGED nonPipeVars

\* lines 87-88: time.Sleep(res.RequeueAfter) ends, the goroutine calls Enqueue
TimerWake(t) ==
    /\ t \in Timers
    /\ epc[t] = "sleep"
    /\ epc' = [epc EXCEPT ![t] = "check"]
    /\ UNCHANGED <<ctxDone, pMap, pChannel, ekey, lpc, lkey, lres>>
    /\ eret' = NoERet
    /\ UNCHANGED nonPipeVars

\* the owner of the context cancels it
Cancel ==
    /\ ~ctxDone
    /\ ctxDone' = TRUE
    /\ UNCHANGED <<pMap, pChannel, epc, ekey, lpc, lkey, lres>>
    /\ eret' = NoERet
    /\ UNCHANGED nonPipeVars

\* NewPipeline, lines 98-110
InitPipeline ==
    /\ ctxDone = FALSE
    /\ pMap = {}
    /\ pChannel = <<>>
    /\ epc = [e \in Enqueuers |-> "idle"]
    /\ ekey = [e \in Enqueuers |-> NoKey]
    /\ lpc = "select"
    /\ lkey = NoKey
    /\ lres = "none"
    /\ eret = NoERet

PipeCall == \E e \in Producers, k \in PKeys : ProducerCall(e, k)
PipeCheck == \E e \in Enqueuers : EnqueueCheck(e)
PipeLoadOrStore == \E e \in Enqueuers : EnqueueLoadOrStore(e)
PipeSend == \E e \in Enqueuers : EnqueueSend(e)
PipeAbsorbed == \E e \in Enqueuers : EnqueueAbsorbed(e)
PipeReconcile == \E o \in Outcomes : LoopReconcile(o)
PipeTimerWake == \E t \in Timers : TimerWake(t)

NextPipeline ==
    \/ PipeCall
    \/ PipeCheck
    \/ PipeLoadOrStore
    \/ PipeSend
    \/ PipeAbsorbed
    \/ LoopStop
    \/ LoopReceive
    \/ LoopDelete
    \/ PipeReconcile
    \/ LoopHandle
    \/ PipeTimerWake
    \/ Cancel

(***************************************************************************)
(* sync: owner table (InitializeOwner, heartbeat, age-out) and lock table  *)
(***************************************************************************)
Procs == 1..NumProcs
LockKeys == 1..NumLockKeys
\* an owner name is <name>-<uuid>, one per process: the process number
NoOwner == 0
NoRet == [proc |-> 0, key |-> 0, res |-> "none"]
Returns(p, k, r) == [proc |-> p, key |-> k, res |-> r]

\* processes whose watches (set up by LocateLockTable) are running
Watchers == {q \in Procs : located[q] /\ running[q]}

\* StoreCollection.InsertOne: the unique index on _id rejects a second
\* document with the same key (mongo.IsDuplicateKeyError -> AlreadyExists)
KeyTaken(col, k) == \E r \in col : r.key = k

OwnedByNone(col, o) == {}

\* StoreCollection.DeleteMany with filter {owner: o}
OwnedBy(col, o) == {r \in col : r.owner = o}

\* change events of the lock collection reach every running watch
NotifyLockWatchers(keys) ==
    lockEv' = [q \in Procs |->
                  IF q \in Watchers THEN lockEv[q] \cup keys ELSE lockEv[q]]

\* delete events of the owner collection reach every running watch
NotifyOwnerWatchers(names) ==
    ownEv' = [q \in Procs |->
                 IF q \in Watchers THEN ownEv[q] \cup names ELSE ownEv[q]]

\* InitializeOwnerWithUpdateInterval with allocateOwner: the singleton and its
\* key are set first; the Watch or the InsertOne may fail in the store
\* (ok = FALSE), which returns the error and leaves the singleton in place
InitializeOwner(p, ok) ==
    /\ running[p]
    /\ ownerState[p] = "nil"
    /\ ownerState' = [ownerState EXCEPT ![p] = IF ok THEN "ready" ELSE "failed"]
    /\ ownerCol' = IF ok THEN ownerCol \cup {p} ELSE ownerCol
    /\ ret' = NoRet
    /\ UNCHANGED <<running, located, lockCol, hnd, ownEv, lockEv, cbpc, cbOwner>>
    /\ UNCHANGED nonLockVars

\* LocateLockTable: needs ownerTable != nil; starts the two watches
LocateLockTable(p) ==
    /\ running[p]
    /\ ~located[p]
    /\ ownerState[p] # "nil"
    /\ located' = [located EXCEPT ![p] = TRUE]
    /\ ret' = NoRet
    /\ UNCHANGED <<ownerState, running, ownerCol, lockCol, hnd, ownEv, lockEv,
                   cbpc, cbOwner>>
    /\ UNCHANGED nonLockVars

\* TryAcquire line 111: ownerTable == nil || ownerTable.key == nil
OwnerUnset(st) == st = "nil"

TryAcquireIgnoresCollision(col, k) == FALSE

\* TryAcquire lines 120-123: InsertOne fails on a key collision
TryAcquireCollides(col, k) == KeyTaken(col, k)

\* what TryAcquire(k) returns to process p in the current state
TryAcquireResult(p, k) ==
    IF OwnerUnset(ownerState[p]) THEN "InvalidArgument"
    ELSE IF TryAcquireCollides(lockCol, k) THEN "AlreadyExists"
    ELSE "acquired"

\* LockTable.TryAcquire
TryAcquire(p, k) ==
    /\ running[p]
    /\ located[p]
    /\ IF TryAcquireResult(p, k) = "acquired"
          THEN /\ hnd[p][k] < MaxHandles
               /\ ret' = NoRet
               /\ lockCol' = lockCol \cup {[key |-> k, owner |-> p]}
               /\ hnd' = [hnd EXCEPT ![p][k] = @ + 1]
               /\ NotifyLockWatchers({k})
          ELSE /\ ret' = Returns(p, k, TryAcquireResult(p, k))
               /\ UNCHANGED <<lockCol, hnd, lockEv>>
    /\ UNCHANGED <<ownerState, running, ownerCol, located, ownEv, cbpc, cbOwner>>
    /\ UNCHANGED nonLockVars

CloseKeeps(col, k) == col

\* StoreCollection.DeleteOne by _id, as lockImpl.Close calls it
CloseDeletes(col, k) == {r \in col : r.key # k}

\* lockImpl.Close: DeleteOne by the handle's key
Close(p, k) ==
    /\ running[p]
    /\ hnd[p][k] > 0
    /\ hnd' = [hnd EXCEPT ![p][k] = @ - 1]
    /\ IF KeyTaken(lockCol, k)
          THEN /\ lockCol' = CloseDeletes(lockCol, k)
               /\ ret' = Returns(p, k, "nil")
               /\ NotifyLockWatchers({k})
          ELSE /\ ret' = Returns(p, k, "NotFound")
               /\ UNCHANGED <<lockCol, lockEv>>
    /\ UNCHANGED <<ownerState, running, ownerCol, located, ownEv, cbpc, cbOwner>>
    /\ UNCHANGED nonLockVars

\* the heartbeat tick of allocateOwner, lines 133-138: updateLastSeen, then
\* deleteAgedOwnerTableEntries, which deletes the records (stale) of the
\* owners whose lastSeen has fallen behind the threshold: crashed, stalled
\* or partitioned processes
Heartbeat(p, stale) ==
    /\ running[p]
    /\ ownerState[p] = "ready"
    /\ stale \subseteq ownerCol \ {p}
    /\ ownerCol' = ownerCol \ stale
    /\ IF stale # {} THEN NotifyOwnerWatchers(stale) ELSE UNCHANGED ownEv
    /\ ret' = NoRet
    /\ UNCHANGED <<ownerState, running, located, lockCol, hnd, lockEv, cbpc,
                   cbOwner>>
    /\ UNCHANGED nonLockVars

\* what is left of a process that has stopped: no handles, no pending events
Stopped(f, p, empty) == [f EXCEPT ![p] = empty]

\* allocateOwner lines 139-148: the context is cancelled, the heartbeat
\* goroutine deletes the own record and the process's watches end
Shutdown(p) ==
    /\ running[p]
    /\ ownerState[p] = "ready"
    /\ cbpc[p] = "idle"
    /\ running' = [running EXCEPT ![p] = FALSE]
    /\ ownerCol' = ownerCol \ {p}
    /\ ownEv' = [q \in Procs |->
                    IF q = p THEN {}
                    ELSE IF q \in Watchers /\ p \in ownerCol
                            THEN ownEv[q] \cup {p}
                    ELSE ownEv[q]]
    /\ lockEv' = Stopped(lockEv, p, {})
    /\ hnd' = Stopped(hnd, p, [k \in LockKeys |-> 0])
    /\ ret' = NoRet
    /\ UNCHANGED <<ownerState, located, lockCol, cbpc, cbOwner>>
    /\ UNCHANGED nonLockVars

\* ownerTableType.DeleteCallback: the delete event of the own record arrives
\* (a peer aged the record out) and the process panics
DeleteCallback(p) ==
    /\ running[p]
    /\ ownerState[p] = "ready"
    /\ p \notin ownerCol
    /\ running' = [running EXCEPT ![p] = FALSE]
    /\ cbpc' = [cbpc EXCEPT ![p] = "idle"]
    /\ cbOwner' = [cbOwner EXCEPT ![p] = NoOwner]
    /\ ownEv' = Stopped(ownEv, p, {})
    /\ lockEv' = Stopped(lockEv, p, {})
    /\ hnd' = Stopped(hnd, p, [k \in LockKeys |-> 0])
    /\ ret' = NoRet
    /\ UNCHANGED <<ownerState, ownerCol, located, lockCol>>
    /\ UNCHANGED nonLockVars

\* LockTable.handleOwnerRelease: DeleteMany of the released owner's locks
handleOwnerRelease(p, o) ==
    /\ p \in Watchers
    /\ o \in ownEv[p]
    /\ ownEv' = [ownEv EXCEPT ![p] = @ \ {o}]
    /\ lockCol' = lockCol \ OwnedBy(lockCol, o)
    /\ IF OwnedBy(lockCol, o) # {}
          THEN NotifyLockWatchers({r.key : r \in OwnedBy(lockCol, o)})
          ELSE UNCHANGED lockEv
    /\ ret' = NoRet
    /\ UNCHANGED <<ownerState, running, ownerCol, located, hnd, cbpc, cbOwner>>
    /\ UNCHANGED nonLockVars

\* LockTable.Callback lines 68-83: FindOne of the lock named by the event,
\* then FindOne of that lock's owner.  The two reads are one step: a record
\* keeps its owner and an owner name never returns to the owner table, so
\* an owner that vanishes between the reads is also seen by the owner watch
Callback(p, k) ==
    /\ p \in Watchers
    /\ cbpc[p] = "idle"
    /\ k \in lockEv[p]
    /\ lockEv' = [lockEv EXCEPT ![p] = @ \ {k}]
    /\ LET found == {r \in lockCol : r.key = k}
       IN IF \E r \in found : r.owner \notin ownerCol
             THEN /\ cbpc' = [cbpc EXCEPT ![p] = "deleteMany"]
                  /\ cbOwner' = [cbOwner EXCEPT ![p] =
                                    (CHOOSE r \in found : TRUE).owner]
             ELSE UNCHANGED <<cbpc, cbOwner>>
    /\ ret' = NoRet
    /\ UNCHANGED <<ownerState, running, ownerCol, located, lockCol, hnd, ownEv>>
    /\ UNCHANGED nonLockVars

\* LockTable.Callback lines 84-91: the owner is gone, DeleteMany of its locks
CallbackDeleteMany(p) ==
    /\ p \in Watchers
    /\ cbpc[p] = "deleteMany"
    /\ lockCol' = lockCol \ OwnedBy(lockCol, cbOwner[p])
    /\ IF OwnedBy(lockCol, cbOwner[p]) # {}
          THEN NotifyLockWatchers({r.key : r \in OwnedBy(lockCol, cbOwner[p])})
          ELSE UNCHANGED lockEv
    /\ cbpc' = [cbpc EXCEPT ![p] = "idle"]
    /\ cbOwner' = [cbOwner EXCEPT ![p] = NoOwner]
    /\ ret' = NoRet
    /\ UNCHANGED <<ownerState, running, ownerCol, located, hnd, ownEv>>
    /\ UNCHANGED nonLockVars

InitLock ==
    /\ ownerState = [p \in Procs |-> "nil"]
    /\ running = [p \in Procs |-> TRUE]
    /\ ownerCol = {}
    /\ located = [p \in Procs |-> FALSE]
    /\ lockCol = {}
    /\ hnd = [p \in Procs |-> [k \in LockKeys |-> 0]]
    /\ ret = NoRet
    /\ ownEv = [p \in Procs |-> {}]
    /\ lockEv = [p \in Procs |-> {}]
    /\ cbpc = [p \in Procs |-> "idle"]
    /\ cbOwner = [p \in Procs |-> NoOwner]

LockInitializeOwner == \E p \in Procs, ok \in BOOLEAN : InitializeOwner(p, ok)
LockLocate == \E p \in Procs : LocateLockTable(p)
LockTryAcquire == \E p \in Procs, k \in LockKeys : TryAcquire(p, k)
LockClose == \E p \in Procs, k \in LockKeys : Close(p, k)
LockHeartbeat == \E p \in Procs, stale \in SUBSET Procs : Heartbeat(p, stale)
LockShutdown == \E p \in Procs : Shutdown(p)
LockDeleteCallback == \E p \in Procs : DeleteCallback(p)
LockOwnerRelease == \E p \in Procs, o \in Procs : handleOwnerRelease(p, o)
LockCallback == \E p \in Procs, k \in LockKeys : Callback(p, k)
LockCallbackDeleteMany == \E p \in Procs : CallbackDeleteMany(p)

NextLock ==
    \/ LockInitializeOwner
    \/ LockLocate
    \/ LockTryAcquire
    \/ LockClose
    \/ LockHeartbeat
    \/ LockShutdown
    \/ LockDeleteCallback
    \/ LockOwnerRelease
    \/ LockCallback
    \/ LockCallbackDeleteMany

(***************************************************************************)
(* db: mongoCollection, one operation per step                             *)
(***************************************************************************)
StoreKeys == 1..NumStoreKeys
Values == 1..NumValues
\* a nil key / nil data argument, and the absence of a document
NilArg == 0
NoDoc == 0
SReturns(op, k, e) == [op |-> op, key |-> k, err |-> e]

\* the driver's UpdateResult for UpdateOne(filter {_id: k}, $set, upsert)
MatchedCount(d, k) == IF d[k] # NoDoc THEN 1 ELSE 0
UpsertedCount(d, k, upsert) == IF d[k] = NoDoc /\ upsert THEN 1 ELSE 0

\* UpdateOne line 133: resp.MatchedCount != 0 && resp.UpsertedCount != 0
UpdateOneNotFound(matched, upserted) == matched # 0 /\ upserted # 0

\* mongoCollection.InsertOne
InsertOne(k, v) ==
    /\ IF v = NilArg \/ k = NilArg
          THEN /\ sret' = SReturns("InsertOne", k, "InvalidArgument")
               /\ UNCHANGED docs
          ELSE IF docs[k] # NoDoc
          THEN /\ sret' = SReturns("InsertOne", k, "AlreadyExists")
               /\ UNCHANGED docs
          ELSE /\ docs' = [docs EXCEPT ![k] = v]
               /\ sret' = SReturns("InsertOne", k, "nil")
    /\ UNCHANGED nonStoreVars

\* mongoCollection.UpdateOne
UpdateOne(k, v, upsert) ==
    /\ IF v = NilArg \/ k = NilArg
          THEN /\ sret' = SReturns("UpdateOne", k, "InvalidArgument")
               /\ UNCHANGED docs
          ELSE /\ docs' = IF docs[k] # NoDoc \/ upsert
                             THEN [docs EXCEPT ![k] = v]
                             ELSE docs
               /\ sret' = SReturns("UpdateOne", k,
                             IF UpdateOneNotFound(MatchedCount(docs, k),
                                                  UpsertedCount(docs, k, upsert))
                                THEN "NotFound" ELSE "nil")
    /\ UNCHANGED nonStoreVars

\* mongoCollection.FindOne: Decode fails with ErrNoDocuments -> NotFound
FindOne(k) ==
    /\ k # NilArg
    /\ sret' = SReturns("FindOne", k, IF docs[k] = NoDoc THEN "NotFound" ELSE "nil")
    /\ UNCHANGED docs
    /\ UNCHANGED nonStoreVars

\* mongoCollection.DeleteOne: DeletedCount == 0 -> NotFound
DeleteOne(k) ==
    /\ k # NilArg
    /\ sret' = SReturns("DeleteOne", k, IF docs[k] = NoDoc THEN "NotFound" ELSE "nil")
    /\ docs' = [docs EXCEPT ![k] = NoDoc]
    /\ UNCHANGED nonStoreVars

\* mongoCollection.DeleteMany with a filter on the value
DeleteMany(v) ==
    /\ v # NilArg
    /\ sret' = SReturns("DeleteMany", NilArg,
                  IF \E k \in StoreKeys : docs[k] = v THEN "nil" ELSE "NotFound")
    /\ docs' = [k \in StoreKeys |-> IF docs[k] = v THEN NoDoc ELSE docs[k]]
    /\ UNCHANGED nonStoreVars

InitStore ==
    /\ docs = [k \in StoreKeys |-> NoDoc]
    /\ sret = SReturns("none", NilArg, "nil")

StoreInsertOne == \E k \in StoreKeys \cup {NilArg}, v \in Values \cup {NilArg} : InsertOne(k, v)
StoreUpdateOne ==
    \E k \in StoreKeys \cup {NilArg}, v \in Values \cup {NilArg}, upsert \in BOOLEAN :
        UpdateOne(k, v, upsert)
StoreFindOne == \E k \in StoreKeys : FindOne(k)
StoreDeleteOne == \E k \in StoreKeys : DeleteOne(k)
StoreDeleteMany == \E v \in Values : DeleteMany(v)

NextStore ==
    \/ StoreInsertOne
    \/ StoreUpdateOne
    \/ StoreFindOne
    \/ StoreDeleteOne
    \/ StoreDeleteMany

(***************************************************************************)
(* sync: provider table, observer table and its controllers                *)
(***************************************************************************)
ExtKeys == 1..NumExtKeys
ProvOwners == 1..NumProvOwners
Controllers == 1..NumControllers
\* the goroutines that call ProviderTable.Callback: the store's watch and
\* the replay started by LocateProviderTableWithName
CallbackThreads == {"watch", "replay"}
\* a provider document; one provider per external key and owner
ProviderDocs == [extKey : ExtKeys, owner : ProvOwners]
NoProvider == [extKey |-> 0, owner |-> 0]
NoNote == [by |-> "none", keys |-> {}, to |-> {}]

\* StoreCollection.Count with filter {_id.extKey: k}
Count(col, k) == Cardinality({d \in col : d.extKey = k})

\* the watch of the provider collection sees every change once it runs
ProviderEvents(changed) == IF ptLocated THEN provEv \cup changed ELSE provEv

NoProbe == [key |-> 0, settled |-> FALSE]

\* a change of the providers of external key k ends the observation of k
ProbeAfter(ks) == IF probe.key \in ks THEN NoProbe ELSE probe

\* no callback holds a count of key k that it has not applied to the set yet
Settled(k) == \A t \in CallbackThreads : ~(tpc[t] = "observe" /\ tkey[t].extKey = k)

\* LocateProviderTableWithName: Watch is registered, the replay goroutine starts
LocateProviderTable ==
    /\ ~ptLocated
    /\ ptLocated' = TRUE
    /\ tpc' = [tpc EXCEPT !["replay"] = "findMany"]
    /\ note' = NoNote
    /\ UNCHANGED <<provCol, provOwners, provEv, tkey, tcnt, rlist,
                   providers, regpc, probe>>
    /\ UNCHANGED nonObsVars

\* replay goroutine, lines 295-300: FindMany lists the existing documents
ReplayFindMany ==
    /\ tpc["replay"] = "findMany"
    /\ rlist' = provCol
    /\ tpc' = [tpc EXCEPT !["replay"] = "idle"]
    /\ note' = NoNote
    /\ UNCHANGED <<provCol, provOwners, ptLocated, provEv, tkey, tcnt,
                   providers, regpc, probe>>
    /\ UNCHANGED nonObsVars

NoneLeftBelowTwo(cnt) == cnt < 2

\* ProviderTable.Callback line 127: cnt == 0
NoneLeft(cnt) == cnt = 0

\* ProviderTable.Callback lines 115-126: called with the next event (watch)
\* or the next listed entry (replay); Count of the documents of the key
CallbackCount(t, d) ==
    /\ ptLocated
    /\ tpc[t] = "idle"
    /\ IF t = "watch"
          THEN /\ d \in provEv
               /\ provEv' = provEv \ {d}
               /\ UNCHANGED rlist
          ELSE /\ d \in rlist
               /\ rlist' = rlist \ {d}
               /\ UNCHANGED provEv
    /\ tkey' = [tkey EXCEPT ![t] = d]
    /\ tcnt' = [tcnt EXCEPT ![t] = ~NoneLeft(Count(provCol, d.extKey))]
    /\ tpc' = [tpc EXCEPT ![t] = "observe"]
    /\ note' = NoNote
    /\ UNCHANGED <<provCol, provOwners, ptLocated, providers, regpc, probe>>
    /\ UNCHANGED nonObsVars

\* observerTable.deleteProvider lines 43-50: the part under o.mu
deleteProvider(set, k) == set \ {k}

\* observerTable.insertProvider lines 60-67: the part under o.mu
insertProvider(set, k) == set \cup {k}

NotifiesAlways(before, after) == TRUE

\* deleteProvider line 51 / insertProvider line 68: notify only on a change
Notifies(before, after) == before # after

\* ProviderTable.Callback lines 127-131: cnt == 0 -> deleteProvider, else
\* insertProvider; the mutation is made under the mutex, the notification
\* is left for the next step
CallbackObserve(t) ==
    /\ tpc[t] = "observe"
    /\ providers' = IF tcnt[t] THEN insertProvider(providers, tkey[t].extKey)
                               ELSE deleteProvider(providers, tkey[t].extKey)
    /\ tpc' = [tpc EXCEPT ![t] = IF Notifies(providers, providers')
                                    THEN "notify" ELSE "cleanup"]
    /\ tcnt' = [tcnt EXCEPT ![t] = FALSE]
    /\ note' = NoNote
    /\ UNCHANGED <<provCol, provOwners, ptLocated, provEv, tkey,
                   rlist, regpc, probe>>
    /\ UNCHANGED nonObsVars

Registered == {c \in Controllers : regpc[c] # "none"}

\* ManagerImpl.NotifyCallback: Enqueue of the key on every registered pipeline
NotifyCallback(k) ==
    note' = [by |-> "NotifyCallback", keys |-> {k}, to |-> Registered]

\* deleteProvider line 54 / insertProvider line 70
CallbackNotify(t) ==
    /\ tpc[t] = "notify"
    /\ NotifyCallback(tkey[t].extKey)
    /\ tpc' = [tpc EXCEPT ![t] = "cleanup"]
    /\ UNCHANGED <<provCol, provOwners, ptLocated, provEv, tkey, tcnt,
                   rlist, providers, regpc, probe>>
    /\ UNCHANGED nonObsVars

\* documents DeleteMany removes for filter {owner: o}
ProvidersOf(col, o) == {d \in col : d.owner = o}

\* ProviderTable.Callback lines 133-161: FindOne of the entry, FindOne of its
\* owner, DeleteMany of the providers of an owner that is gone.  One step:
\* an owner name never returns to the owner table
CallbackCleanup(t) ==
    /\ tpc[t] = "cleanup"
    /\ LET gone == IF tkey[t] \in provCol /\ tkey[t].owner \notin provOwners
                      THEN ProvidersOf(provCol, tkey[t].owner) ELSE {}
       IN /\ provCol' = provCol \ gone
          /\ provEv' = ProviderEvents(gone)
          /\ probe' = ProbeAfter({d.extKey : d \in gone})
    /\ tpc' = [tpc EXCEPT ![t] = "idle"]
    /\ tkey' = [tkey EXCEPT ![t] = NoProvider]
    /\ note' = NoNote
    /\ UNCHANGED <<provOwners, ptLocated, tcnt, rlist, providers, regpc>>
    /\ UNCHANGED nonObsVars

\* ProviderTable.handleOwnerRelease, called by the owner table's watch for the
\* delete event of owner o: DeleteMany of the released owner's providers.
\* The call that finds nothing to delete changes nothing and is left out
ProviderOwnerRelease(o) ==
    /\ ptLocated
    /\ o \notin provOwners
    /\ ProvidersOf(provCol, o) # {}
    /\ provCol' = provCol \ ProvidersOf(provCol, o)
    /\ provEv' = ProviderEvents(ProvidersOf(provCol, o))
    /\ probe' = ProbeAfter({d.extKey : d \in ProvidersOf(provCol, o)})
    /\ note' = NoNote
    /\ UNCHANGED <<provOwners, ptLocated, tpc, tkey, tcnt, rlist, providers,
                   regpc>>
    /\ UNCHANGED nonObsVars

\* ProviderTable.CreateProvider by the process that owns name o: InsertOne
CreateProvider(k, o) ==
    /\ o \in provOwners
    /\ [extKey |-> k, owner |-> o] \notin provCol
    /\ provCol' = provCol \cup {[extKey |-> k, owner |-> o]}
    /\ provEv' = ProviderEvents({[extKey |-> k, owner |-> o]})
    /\ probe' = ProbeAfter({k})
    /\ note' = NoNote
    /\ UNCHANGED <<provOwners, ptLocated, tpc, tkey, tcnt, rlist,
                   providers, regpc>>
    /\ UNCHANGED nonObsVars

\* Provider.Close: DeleteOne of the provider's document
ProviderClose(k, o) ==
    /\ [extKey |-> k, owner |-> o] \in provCol
    /\ provCol' = provCol \ {[extKey |-> k, owner |-> o]}
    /\ provEv' = ProviderEvents({[extKey |-> k, owner |-> o]})
    /\ probe' = IF /\ k \in providers
                      /\ Count(provCol', k) > 0
                      /\ \A t \in CallbackThreads : tpc[t] # "notify"
                   THEN [key |-> k, settled |-> Settled(k)]
                   ELSE ProbeAfter({k})
    /\ note' = NoNote
    /\ UNCHANGED <<provOwners, ptLocated, tpc, tkey, tcnt, rlist,
                   providers, regpc>>
    /\ UNCHANGED nonObsVars

\* an owner record is deleted: shutdown of its process or age-out by a peer
OwnerDeleted(o) ==
    /\ o \in provOwners
    /\ provOwners' = provOwners \ {o}
    /\ note' = NoNote
    /\ UNCHANGED <<provCol, ptLocated, provEv, tpc, tkey, tcnt, rlist,
                   providers, regpc, probe>>
    /\ UNCHANGED nonObsVars

\* ProviderTable.Register -> ManagerImpl.Register: the controller is stored
\* with its pipeline and the goroutine for the existing keys is started
Register(c) ==
    /\ ptLocated
    /\ regpc[c] = "none"
    /\ regpc' = [regpc EXCEPT ![c] = "existing"]
    /\ note' = NoNote
    /\ UNCHANGED <<provCol, provOwners, ptLocated, provEv, tpc, tkey,
                   tcnt, rlist, providers, probe>>
    /\ UNCHANGED nonObsVars

\* Register lines 224-232: ReconcilerGetAllKeys (getProviderList) and Enqueue
\* of every key of the observer set
RegisterExisting(c) ==
    /\ regpc[c] = "existing"
    /\ regpc' = [regpc EXCEPT ![c] = "done"]
    /\ note' = [by |-> "Register", keys |-> providers, to |-> {c}]
    /\ UNCHANGED <<provCol, provOwners, ptLocated, provEv, tpc, tkey,
                   tcnt, rlist, providers, probe>>
    /\ UNCHANGED nonObsVars

InitObserver ==
    /\ provCol = {}
    /\ provOwners = ProvOwners
    /\ ptLocated = FALSE
    /\ provEv = {}
    /\ tpc = [t \in CallbackThreads |-> IF t = "watch" THEN "idle" ELSE "off"]
    /\ tkey = [t \in CallbackThreads |-> NoProvider]
    /\ tcnt = [t \in CallbackThreads |-> FALSE]
    /\ rlist = {}
    /\ providers = {}
    /\ regpc = [c \in Controllers |-> "none"]
    /\ note = NoNote
    /\ probe = NoProbe

ObsCallbackCount == \E t \in CallbackThreads, d \in ProviderDocs : CallbackCount(t, d)
ObsCallbackObserve == \E t \in CallbackThreads : CallbackObserve(t)
ObsCallbackNotify == \E t \in CallbackThreads : CallbackNotify(t)
ObsCallbackCleanup == \E t \in CallbackThreads : CallbackCleanup(t)
ObsOwnerRelease == \E o \in ProvOwners : ProviderOwnerRelease(o)
ObsCreateProvider == \E k \in ExtKeys, o \in ProvOwners : CreateProvider(k, o)
ObsProviderClose == \E k \in ExtKeys, o \in ProvOwners : ProviderClose(k, o)
ObsOwnerDeleted == \E o \in ProvOwners : OwnerDeleted(o)
ObsRegister == \E c \in Controllers : Register(c)
ObsRegisterExisting == \E c \in Controllers : RegisterExisting(c)

NextObserver ==
    \/ LocateProviderTable
    \/ ReplayFindMany
    \/ ObsCallbackCount
    \/ ObsCallbackObserve
    \/ ObsCallbackNotify
    \/ ObsCallbackCleanup
    \/ ObsOwnerRelease
    \/ ObsCreateProvider
    \/ ObsProviderClose
    \/ ObsOwnerDeleted
    \/ ObsRegister
    \/ ObsRegisterExisting

(***************************************************************************)
(* rate: LimitManager and Limiter                                          *)
(***************************************************************************)
RateKeys == 1..NumRateKeys
Gens == 1..MaxGen
Consumers == 1..NumConsumers
\* a Limiter object: the gen-th object created for its key
Lims == [key : RateKeys, gen : Gens]
NoLim == [key |-> 0, gen |-> 0]
\* arguments the callers pass: rates and budgets, bursts
RateArgs == {0, 3, 4, 16}
BurstArgs == {0, 1}

\* two's complement integers of IntBits bits
Half == 2 ^ (IntBits - 1)
Wrap(x) == ((x + Half) % (2 * Half)) - Half

\* Go's integer division truncates toward zero
TruncDiv(a, b) == IF a >= 0 THEN a \div b ELSE -((-a) \div b)

RECURSIVE SumRates(_, _)
SumRates(ls, lr) ==
    IF ls = {} THEN 0
    ELSE LET l == CHOOSE x \in ls : TRUE
         IN Wrap(lr[l] + SumRates(ls \ {l}, lr))

\* the Limiter objects held by a map from keys to objects
Objects(map) == {[key |-> k, gen |-> map[k]] : k \in {x \in RateKeys : map[x] # 0}}

ScaledExact(lr, r, sumActive) == (lr * r) \div sumActive

\* rebalanceLocked line 162: scaled := (lim.rate * m.rate) / sumActive
Scaled(lr, r, sumActive) == TruncDiv(Wrap(lr * r), sumActive)

\* LimitManager.rebalanceLocked with resetActiveLimiterLimits: the limits of
\* the Limiter objects after the call
rebalanceLocked(inU, r, lr, lim) ==
    LET active == Objects(inU)
        sumActive == SumRates(active, lr)
    IN IF active = {} THEN lim
       ELSE IF r <= 0 \/ sumActive <= 0
          THEN [l \in Lims |-> IF l \in active THEN 0 ELSE lim[l]]
       ELSE [l \in Lims |->
                IF l \in active
                   THEN IF Scaled(lr[l], r, sumActive) < 1 THEN 1
                        ELSE Scaled(lr[l], r, sumActive)
                   ELSE lim[l]]

RReturns(op, res) == [op |-> op, res |-> res]

\* LimitManager.SetRate
SetRate(r) ==
    /\ IF rate = r
          THEN UNCHANGED <<rate, limit>>
          ELSE /\ rate' = r
               /\ limit' = rebalanceLocked(inUse, r, lrate, limit)
    /\ rret' = RReturns("SetRate", "none")
    /\ UNCHANGED <<committed, limiters, inUse, created, lrate, lburst, usage,
                   cpc, clim>>
    /\ UNCHANGED nonRateVars

\* LimitManager.removeLimiterLocked: the manager's fields after the call
RemovedLimiters(k) == [limiters EXCEPT ![k] = 0]
RemovedInUse(k) == [inUse EXCEPT ![k] = 0]
RemovedCommitted(k) ==
    LET c == Wrap(committed - lrate[[key |-> k, gen |-> limiters[k]]])
    IN IF c < 0 THEN 0 ELSE c
RemovedLimit(k) ==
    LET l == [key |-> k, gen |-> limiters[k]]
    IN rebalanceLocked(RemovedInUse(k), rate, lrate, [limit EXCEPT ![l] = lrate[l]])

removeLimiterLocked(k) ==
    IF limiters[k] = 0
       THEN UNCHANGED <<committed, limiters, inUse, limit>>
       ELSE /\ limiters' = RemovedLimiters(k)
            /\ inUse' = RemovedInUse(k)
            /\ committed' = RemovedCommitted(k)
            /\ limit' = RemovedLimit(k)

\* the number of Limiter objects constructed so far
CreatedTotal ==
    LET S[k \in 0..NumRateKeys] == IF k = 0 THEN 0 ELSE S[k - 1] + created[k]
    IN S[NumRateKeys]

\* LimitManager.ensureLimiterLocked
ensureLimiterLocked(op, k, r, burst) ==
    IF r <= 0 \/ burst <= 0
       THEN /\ removeLimiterLocked(k)
            /\ rret' = RReturns(op, "nil")
            /\ UNCHANGED <<created, lrate, lburst>>
    ELSE IF limiters[k] # 0
       THEN LET l == [key |-> k, gen |-> limiters[k]]
            IN /\ lrate' = [lrate EXCEPT ![l] = r]
               /\ lburst' = [lburst EXCEPT ![l] = burst]
               /\ committed' = Wrap(committed + Wrap(r - lrate[l]))
               /\ limit' = IF inUse[k] # 0
                              THEN rebalanceLocked(inUse, rate, lrate',
                                                   [limit EXCEPT ![l] = r])
                              ELSE [limit EXCEPT ![l] = r]
               /\ rret' = RReturns(op, "limiter")
               /\ UNCHANGED <<limiters, inUse, created>>
    ELSE /\ created[k] < MaxGen
         /\ CreatedTotal < MaxLimiters
         /\ LET l == [key |-> k, gen |-> created[k] + 1]
            IN /\ created' = [created EXCEPT ![k] = @ + 1]
               /\ limiters' = [limiters EXCEPT ![k] = l.gen]
               /\ lrate' = [lrate EXCEPT ![l] = r]
               /\ lburst' = [lburst EXCEPT ![l] = burst]
               /\ limit' = [limit EXCEPT ![l] = r]
               /\ committed' = Wrap(committed + r)
               /\ rret' = RReturns(op, "limiter")
               /\ UNCHANGED inUse

\* LimitManager.EnsureLimiter
EnsureLimiter(k, r, burst) ==
    /\ ensureLimiterLocked("EnsureLimiter", k, r, burst)
    /\ UNCHANGED <<rate, usage, cpc, clim>>
    /\ UNCHANGED nonRateVars

\* LimitManager.NewLimiter
NewLimiter(k, r, burst) ==
    /\ IF limiters[k] # 0
          THEN /\ rret' = RReturns("NewLimiter", "AlreadyExists")
               /\ UNCHANGED <<committed, limiters, inUse, created, lrate,
                              lburst, limit>>
          ELSE ensureLimiterLocked("NewLimiter", k, r, burst)
    /\ UNCHANGED <<rate, usage, cpc, clim>>
    /\ UNCHANGED nonRateVars

\* LimitManager.RemoveLimiter
RemoveLimiter(k) ==
    /\ removeLimiterLocked(k)
    /\ rret' = RReturns("RemoveLimiter", "none")
    /\ UNCHANGED <<rate, created, lrate, lburst, usage, cpc, clim>>
    /\ UNCHANGED nonRateVars

\* Limiter.SetInUse lines 41-62: the part under l.mu.  A consumer marks a
\* Limiter object in use, and releases the object it holds
SetInUseLocked(c, l, use) ==
    /\ IF use
          THEN /\ cpc[c] = "idle"
               /\ l.gen <= created[l.key]
               /\ clim' = [clim EXCEPT ![c] = l]
               /\ IF usage[l] = 0
                     THEN /\ usage' = [usage EXCEPT ![l] = 1]
                          /\ cpc' = [cpc EXCEPT ![c] = "activate"]
                     ELSE /\ usage' = [usage EXCEPT ![l] = @ + 1]
                          /\ cpc' = [cpc EXCEPT ![c] = "holding"]
          ELSE /\ cpc[c] = "holding"
               /\ l = clim[c]
               /\ IF usage[l] = 1
                     THEN /\ usage' = [usage EXCEPT ![l] = 0]
                          /\ cpc' = [cpc EXCEPT ![c] = "deactivate"]
                          /\ UNCHANGED clim
                     ELSE /\ usage' = [usage EXCEPT ![l] = IF @ > 1 THEN @ - 1 ELSE @]
                          /\ cpc' = [cpc EXCEPT ![c] = "idle"]
                          /\ clim' = [clim EXCEPT ![c] = NoLim]
    /\ rret' = RReturns("SetInUse", "none")
    /\ UNCHANGED <<rate, committed, limiters, inUse, created, lrate, lburst, limit>>
    /\ UNCHANGED nonRateVars

\* UpdateInUse lines 59-60: l.limiter.SetLimit(rate.Limit(l.rate))
ResetLimit(lim, l, lr) == [lim EXCEPT ![l] = lr[l]]

\* Limiter.SetInUse lines 63-65 with LimitManager.UpdateInUse: the
\* notification, made after l.mu is released
UpdateInUse(c) ==
    /\ cpc[c] \in {"activate", "deactivate"}
    /\ LET l == clim[c]
           use == cpc[c] = "activate"
       IN IF limiters[l.key] = 0
             THEN UNCHANGED <<inUse, limit>>
             ELSE /\ inUse' = [inUse EXCEPT ![l.key] = IF use THEN l.gen ELSE 0]
                  /\ limit' = rebalanceLocked(inUse', rate, lrate,
                                 IF use THEN limit ELSE ResetLimit(limit, l, lrate))
    /\ cpc' = [cpc EXCEPT ![c] = IF cpc[c] = "activate" THEN "holding" ELSE "idle"]
    /\ clim' = [clim EXCEPT ![c] = IF cpc[c] = "activate" THEN @ ELSE NoLim]
    /\ rret' = RReturns("UpdateInUse", "none")
    /\ UNCHANGED <<rate, committed, limiters, created, lrate, lburst, usage>>
    /\ UNCHANGED nonRateVars

\* NewLimitManager(0); SetRate gives the manager its budget
InitRate ==
    /\ rate = 0
    /\ committed = 0
    /\ limiters = [k \in RateKeys |-> 0]
    /\ inUse = [k \in RateKeys |-> 0]
    /\ created = [k \in RateKeys |-> 0]
    /\ lrate = [l \in Lims |-> 0]
    /\ lburst = [l \in Lims |-> 0]
    /\ limit = [l \in Lims |-> 0]
    /\ usage = [l \in Lims |-> 0]
    /\ cpc = [c \in Consumers |-> "idle"]
    /\ clim = [c \in Consumers |-> NoLim]
    /\ rret = RReturns("none", "none")

RateSetRate == \E r \in RateArgs : SetRate(r)
RateEnsureLimiter ==
    \E k \in RateKeys, r \in RateArgs, burst \in BurstArgs : EnsureLimiter(k, r, burst)
RateNewLimiter ==
    \E k \in RateKeys, r \in RateArgs, burst \in BurstArgs : NewLimiter(k, r, burst)
RateRemoveLimiter == \E k \in RateKeys : RemoveLimiter(k)
RateSetInUse == \E c \in Consumers, l \in Lims, use \in BOOLEAN : SetInUseLocked(c, l, use)
RateUpdateInUse == \E c \in Consumers : UpdateInUse(c)

NextRate ==
    \/ RateSetRate
    \/ RateEnsureLimiter
    \/ RateNewLimiter
    \/ RateRemoveLimiter
    \/ RateSetInUse
    \/ RateUpdateInUse

(***************************************************************************)
(* reconciler.ManagerImpl: one manager, its controllers and the goroutines *)
(* that run Register's replay and NotifyCallback                           *)
(***************************************************************************)
MKeys == 1..NumMgrKeys
MNames == 1..NumMgrNames
NoMRet == [op |-> "none", err |-> "none"]
MReturns(op, e) == [op |-> op, err |-> e]

\* log.Panicln: the process dies, and every goroutine with it
Panicked(pc) == IF pc \in {"getAllKeys", "enqueue", "range"} THEN "panicked" ELSE pc

\* Pipeline.Enqueue lines 42-44, as the manager's goroutines see it: the call
\* fails once the context is cancelled
EnqueueFails == mctxDone

\* ManagerImpl.Initialize
ManagerInitialize ==
    /\ ~mpanic
    /\ IF mparent
          THEN /\ mret' = MReturns("Initialize", "AlreadyExists")
               /\ UNCHANGED mparent
          ELSE /\ mparent' = TRUE
               /\ mret' = MReturns("Initialize", "nil")
    /\ UNCHANGED <<mctxDone, parentKeys, mcontrollers, bpc, bleft, bsnap,
                   npc, nkey, nstart, nmust, nvisited, menq, mpanic>>
    /\ UNCHANGED nonMgrVars

\* the store the manager is built over gets a further entry, which
\* Manager.ReconcilerGetAllKeys returns from then on
ParentInsert(k) ==
    /\ ~mpanic
    /\ k \notin parentKeys
    /\ parentKeys' = parentKeys \cup {k}
    /\ mret' = NoMRet
    /\ UNCHANGED <<mparent, mctxDone, mcontrollers, bpc, bleft, bsnap,
                   npc, nkey, nstart, nmust, nvisited, menq, mpanic>>
    /\ UNCHANGED nonMgrVars

\* the context given to Initialize is cancelled
ManagerCancel ==
    /\ ~mpanic
    /\ mparent
    /\ ~mctxDone
    /\ mctxDone' = TRUE
    /\ mret' = NoMRet
    /\ UNCHANGED <<mparent, parentKeys, mcontrollers, bpc, bleft, bsnap,
                   npc, nkey, nstart, nmust, nvisited, menq, mpanic>>
    /\ UNCHANGED nonMgrVars

\* ManagerImpl.Register lines 207-217: the checks and the LoadOrStore of a
\* controllerData that has no pipeline yet
RegisterLoadOrStore(c) ==
    /\ ~mpanic
    /\ IF ~mparent
          THEN /\ mret' = MReturns("Register", "InvalidArgument")
               /\ UNCHANGED mcontrollers
          ELSE IF mcontrollers[c] # "none"
          THEN /\ mret' = MReturns("Register", "AlreadyExists")
               /\ UNCHANGED mcontrollers
          ELSE /\ mcontrollers' = [mcontrollers EXCEPT ![c] = "stored"]
               /\ mret' = NoMRet
    /\ UNCHANGED <<mparent, mctxDone, parentKeys, bpc, bleft, bsnap,
                   npc, nkey, nstart, nmust, nvisited, menq, mpanic>>
    /\ UNCHANGED nonMgrVars

\* ManagerImpl.Register lines 220-234: data.pipeline is set, the replay
\* goroutine is started and Register returns nil
RegisterNewPipeline(c) ==
    /\ ~mpanic
    /\ mcontrollers[c] = "stored"
    /\ mcontrollers' = [mcontrollers EXCEPT ![c] = "ready"]
    /\ bpc' = [bpc EXCEPT ![c] = "getAllKeys"]
    /\ mret' = MReturns("Register", "nil")
    /\ UNCHANGED <<mparent, mctxDone, parentKeys, bleft, bsnap,
                   npc, nkey, nstart, nmust, nvisited, menq, mpanic>>
    /\ UNCHANGED nonMgrVars

\* Register's goroutine, line 225: keys := m.parent.ReconcilerGetAllKeys()
ReplayGetAllKeys(c) ==
    /\ ~mpanic
    /\ bpc[c] = "getAllKeys"
    /\ bsnap' = [bsnap EXCEPT ![c] = parentKeys]
    /\ bleft' = [bleft EXCEPT ![c] = parentKeys]
    /\ bpc' = [bpc EXCEPT ![c] = IF parentKeys = {} THEN "done" ELSE "enqueue"]
    /\ mret' = NoMRet
    /\ UNCHANGED <<mparent, mctxDone, parentKeys, mcontrollers,
                   npc, nkey, nstart, nmust, nvisited, menq, mpanic>>
    /\ UNCHANGED nonMgrVars

\* Register's goroutine, lines 226-231: one turn of the loop over keys
ReplayEnqueue(c, k) ==
    /\ ~mpanic
    /\ bpc[c] = "enqueue"
    /\ k \in bleft[c]
    /\ IF EnqueueFails
          THEN /\ mpanic' = TRUE
               /\ bpc' = [d \in MNames |-> Panicked(bpc[d])]
               /\ npc' = Panicked(npc)
               /\ UNCHANGED <<bleft, menq>>
          ELSE /\ menq' = [menq EXCEPT ![c] = @ \cup {k}]
               /\ bleft' = [bleft EXCEPT ![c] = @ \ {k}]
               /\ bpc' = [bpc EXCEPT ![c] = IF bleft'[c] = {} THEN "done" ELSE "enqueue"]
               /\ UNCHANGED <<npc, mpanic>>
    /\ mret' = NoMRet
    /\ UNCHANGED <<mparent, mctxDone, parentKeys, mcontrollers, bsnap,
                   nkey, nstart, nmust, nvisited>>
    /\ UNCHANGED nonMgrVars

\* controllers whose Register has returned nil
FullyRegistered == {c \in MNames : mcontrollers[c] = "ready"}

\* entries of m.controllers
Stored == {c \in MNames : mcontrollers[c] # "none"}

\* ManagerImpl.NotifyCallback line 178: Range starts; it visits every entry
\* that is in the map now, and may or may not visit one stored meanwhile
NotifyRange(k) ==
    /\ ~mpanic
    /\ npc \in {"idle", "returned"}
    /\ npc' = "range"
    /\ nkey' = k
    /\ nstart' = FullyRegistered
    /\ nmust' = Stored
    /\ nvisited' = {}
    /\ mret' = NoMRet
    /\ UNCHANGED <<mparent, mctxDone, parentKeys, mcontrollers, bpc, bleft,
                   bsnap, menq, mpanic>>
    /\ UNCHANGED nonMgrVars

\* ManagerImpl.NotifyCallback lines 179-188: Range's function for one entry.
\* crtl.pipeline is nil until Register has set it, and Enqueue on a nil
\* pipeline panics as a failed Enqueue does
NotifyVisit(c) ==
    /\ ~mpanic
    /\ npc = "range"
    /\ c \in Stored \ nvisited
    /\ IF mcontrollers[c] = "stored" \/ EnqueueFails
          THEN /\ mpanic' = TRUE
               /\ bpc' = [d \in MNames |-> Panicked(bpc[d])]
               /\ npc' = "panicked"
               /\ UNCHANGED <<nvisited, menq>>
          ELSE /\ menq' = [menq EXCEPT ![c] = @ \cup {nkey}]
               /\ nvisited' = nvisited \cup {c}
               /\ UNCHANGED <<npc, bpc, mpanic>>
    /\ mret' = NoMRet
    /\ UNCHANGED <<mparent, mctxDone, parentKeys, mcontrollers, bleft, bsnap,
                   nkey, nstart, nmust>>
    /\ UNCHANGED nonMgrVars

\* ManagerImpl.NotifyCallback line 190: Range has ended
NotifyReturn ==
    /\ ~mpanic
    /\ npc = "range"
    /\ nmust \subseteq nvisited
    /\ npc' = "returned"
    /\ mret' = MReturns("NotifyCallback", "nil")
    /\ UNCHANGED <<mparent, mctxDone, parentKeys, mcontrollers, bpc, bleft,
                   bsnap, nkey, nstart, nmust, nvisited, menq, mpanic>>
    /\ UNCHANGED nonMgrVars

\* ManagerImpl is zero-valued until Initialize
InitManager ==
    /\ mparent = FALSE
    /\ mctxDone = FALSE
    /\ parentKeys = {}
    /\ mcontrollers = [c \in MNames |-> "none"]
    /\ bpc = [c \in MNames |-> "none"]
    /\ bleft = [c \in MNames |-> {}]
    /\ bsnap = [c \in MNames |-> {}]
    /\ npc = "idle"
    /\ nkey = 0
    /\ nstart = {}
    /\ nmust = {}
    /\ nvisited = {}
    /\ menq = [c \in MNames |-> {}]
    /\ mpanic = FALSE
    /\ mret = NoMRet

NextManager ==
    \/ ManagerInitialize
    \/ \E k \in MKeys : ParentInsert(k)
    \/ ManagerCancel
    \/ \E c \in MNames : RegisterLoadOrStore(c)
    \/ \E c \in MNames : RegisterNewPipeline(c)
    \/ \E c \in MNames : ReplayGetAllKeys(c)
    \/ \E c \in MNames, k \in MKeys : ReplayEnqueue(c, k)
    \/ \E k \in MKeys : NotifyRange(k)
    \/ \E c \in MNames : NotifyVisit(c)
    \/ NotifyReturn

(***************************************************************************)
(* table: a Table and a CachedTable built over one store collection        *)
(***************************************************************************)
Tables == {"direct", "cached"}
TKeys == 1..NumTableKeys
TValues == 1..NumTableValues
\* a nil filter selects every document; another filter selects by value
NilFilter == 0
NoTRet == [v |-> "none", op |-> "none", key |-> 0, err |-> "none", val |-> 0]
TReturns(v, op, k, e, val) == [v |-> v, op |-> op, key |-> k, err |-> e, val |-> val]

\* an access to the map t.cache and the hold on t.cacheMu around it
Access(acc, mu) == [acc |-> acc, mu |-> mu]
NoAccess == Access("none", "none")

\* the documents a filter selects
Selected(d, f) == {k \in TKeys : d[k] # NoDoc /\ (f = NilFilter \/ d[k] = f)}

\* col.Watch: the change events of a write reach the callback of the cached
\* table once its Initialize has registered it
Watched(d) ==
    IF tcol["cached"] THEN tev \cup {k \in TKeys : d[k] # tdocs[k]} ELSE tev

\* the test every operation of Table and CachedTable starts with, except
\* CachedTable.Find: if t.col == nil return InvalidArgument; then the store
\* call, which leaves the documents d and returns e and val
TableCall(v, op, k, d, e, val) ==
    /\ IF ~tcol[v]
          THEN /\ tret' = TReturns(v, op, k, "InvalidArgument", 0)
               /\ UNCHANGED <<tdocs, tev>>
          ELSE /\ tdocs' = d
               /\ tev' = Watched(d)
               /\ tret' = TReturns(v, op, k, e, val)
    /\ UNCHANGED <<tseen, tcol, tmode, cache, wpc, wkey, went, ppc, plist, pkey, pent>>
    /\ cacheMu' = NoAccess
    /\ UNCHANGED nonTblVars

\* Table.Insert, CachedTable.Insert: col.InsertOne
TableInsert(v, k, e) ==
    TableCall(v, "Insert", k,
              IF tdocs[k] = NoDoc THEN [tdocs EXCEPT ![k] = e] ELSE tdocs,
              IF tdocs[k] = NoDoc THEN "nil" ELSE "AlreadyExists", 0)

\* Table.Locate, CachedTable.Locate: col.UpdateOne with upsert
TableLocate(v, k, e) ==
    TableCall(v, "Locate", k, [tdocs EXCEPT ![k] = e],
              IF UpdateOneNotFound(MatchedCount(tdocs, k), UpsertedCount(tdocs, k, TRUE))
                 THEN "NotFound" ELSE "nil", 0)

\* Table.Update, CachedTable.Update: col.UpdateOne without upsert
TableUpdate(v, k, e) ==
    TableCall(v, "Update", k,
              IF tdocs[k] = NoDoc THEN tdocs ELSE [tdocs EXCEPT ![k] = e],
              IF UpdateOneNotFound(MatchedCount(tdocs, k), UpsertedCount(tdocs, k, FALSE))
                 THEN "NotFound" ELSE "nil", 0)

DBFindNothing(d, k) == NoDoc

\* Table.Find lines 301-305 and CachedTable.DBFind lines 190-194: col.FindOne;
\* NoDoc stands for the NotFound the caller gets
DBFind(d, k) == d[k]

\* Table.Find
TableFind(k) ==
    TableCall("direct", "Find", k, tdocs,
              IF DBFind(tdocs, k) = NoDoc THEN "NotFound" ELSE "nil", DBFind(tdocs, k))

\* CachedTable.Find of src/table/cached_generic.go: the cache alone, with no
\* test of t.col
CachedFind(k) ==
    /\ tret' = TReturns("cached", "Find", k,
                        IF cache[k] = NoDoc THEN "NotFound" ELSE "nil", cache[k])
    /\ cacheMu' = Access("read", "RLock")
    /\ UNCHANGED cache

\* CachedTable.Find of a table initialized WithReadThrough: a cache miss
\* reads the store and a store hit populates the cache
ReadThroughFind(k) ==
    LET e == IF cache[k] # NoDoc THEN cache[k] ELSE DBFind(tdocs, k)
    IN /\ tret' = TReturns("cached", "Find", k,
                           IF e = NoDoc THEN "NotFound" ELSE "nil", e)
       /\ cache' = [cache EXCEPT ![k] = e]
       /\ cacheMu' = IF cache[k] # NoDoc \/ e = NoDoc THEN Access("read", "RLock")
                                                     ELSE Access("write", "Lock")

\* CachedTable.Find
TableCachedFind(k) ==
    /\ IF tmode = "readThrough" THEN ReadThroughFind(k) ELSE CachedFind(k)
    /\ UNCHANGED <<tseen, tcol, tmode, tdocs, tev, wpc, wkey, went, ppc, plist, pkey, pent>>
    /\ UNCHANGED nonTblVars

\* CachedTable.DBFind
TableDBFind(k) ==
    TableCall("cached", "DBFind", k, tdocs,
              IF DBFind(tdocs, k) = NoDoc THEN "NotFound" ELSE "nil", DBFind(tdocs, k))

\* Table.FindMany, CachedTable.DBFindMany: col.FindMany; val is the
\* number of entries returned
TableFindMany(v, f) ==
    TableCall(v, "FindMany", 0, tdocs, "nil", Cardinality(Selected(tdocs, f)))

\* Table.FindManyWithOpts
TableFindManyWithOpts(f) ==
    TableCall("direct", "FindManyWithOpts", 0, tdocs, "nil",
              Cardinality(Selected(tdocs, f)))

\* Table.Count, CachedTable.Count: col.Count
TableCount(v, f) ==
    TableCall(v, "Count", 0, tdocs, "nil", Cardinality(Selected(tdocs, f)))

\* Table.DeleteByFilter, CachedTable.DeleteByFilter: col.DeleteMany, which
\* returns NotFound when it has deleted nothing
TableDeleteByFilter(v, f) ==
    TableCall(v, "DeleteByFilter", 0,
              [k \in TKeys |-> IF k \in Selected(tdocs, f) THEN NoDoc ELSE tdocs[k]],
              IF Selected(tdocs, f) = {} THEN "NotFound" ELSE "nil",
              Cardinality(Selected(tdocs, f)))

\* Table.DeleteKey, CachedTable.DeleteKey: col.DeleteOne
TableDeleteKey(v, k) ==
    TableCall(v, "DeleteKey", k, [tdocs EXCEPT ![k] = NoDoc],
              IF tdocs[k] = NoDoc THEN "NotFound" ELSE "nil", 0)

\* Table.Initialize, and CachedTable.Initialize up to the FindMany of line 80;
\* a table WithReadThrough leaves its cache empty
TableInitialize(v, mode) ==
    /\ v = "direct" => mode = "eager"
    /\ IF tcol[v]
          THEN /\ tret' = TReturns(v, "Initialize", 0, "AlreadyExists", 0)
               /\ UNCHANGED <<tcol, tmode, ppc, plist>>
          ELSE /\ tcol' = [tcol EXCEPT ![v] = TRUE]
               /\ IF v = "cached"
                     THEN /\ tmode' = mode
                          /\ plist' = IF mode = "eager" THEN Selected(tdocs, NilFilter) ELSE {}
                          /\ ppc' = IF plist' = {} THEN "done" ELSE "find"
                     ELSE UNCHANGED <<tmode, ppc, plist>>
               /\ tret' = IF v = "cached" /\ plist' # {}
                             THEN NoTRet
                             ELSE TReturns(v, "Initialize", 0, "nil", 0)
    /\ UNCHANGED <<tseen, tdocs, cache, tev, wpc, wkey, went, pkey, pent>>
    /\ cacheMu' = NoAccess
    /\ UNCHANGED nonTblVars

\* CachedTable.Initialize line 86: DBFind of one key of the list; an entry
\* that is gone is logged and skipped
PreloadFind(k) ==
    /\ ppc = "find"
    /\ k \in plist
    /\ IF DBFind(tdocs, k) = NoDoc
          THEN /\ plist' = plist \ {k}
               /\ ppc' = IF plist' = {} THEN "done" ELSE "find"
               /\ UNCHANGED <<pkey, pent>>
          ELSE /\ pkey' = k
               /\ pent' = DBFind(tdocs, k)
               /\ ppc' = "store"
               /\ UNCHANGED plist
    /\ tret' = IF ppc' = "done" THEN TReturns("cached", "Initialize", 0, "nil", 0)
                                ELSE NoTRet
    /\ UNCHANGED <<tseen, tcol, tmode, tdocs, cache, tev, wpc, wkey, went>>
    /\ cacheMu' = NoAccess
    /\ UNCHANGED nonTblVars

\* CachedTable.Initialize lines 92-96: t.cache[k.Key] = entry under cacheMu
PreloadStore ==
    /\ ppc = "store"
    /\ cache' = [cache EXCEPT ![pkey] = pent]
    /\ plist' = plist \ {pkey}
    /\ pkey' = 0
    /\ pent' = NoDoc
    /\ ppc' = IF plist' = {} THEN "done" ELSE "find"
    /\ tret' = IF ppc' = "done" THEN TReturns("cached", "Initialize", 0, "nil", 0)
                                ELSE NoTRet
    /\ UNCHANGED <<tseen, tcol, tmode, tdocs, tev, wpc, wkey, went>>
    /\ cacheMu' = Access("write", "Lock")
    /\ UNCHANGED nonTblVars

\* CachedTable.callback lines 105-108: the watch delivers an event and the
\* callback reads the entry from the store
CallbackDBFind(k) ==
    /\ wpc = "idle"
    /\ k \in tev
    /\ tev' = tev \ {k}
    /\ wkey' = k
    /\ went' = DBFind(tdocs, k)
    /\ tseen' = [tseen EXCEPT ![k] = [seen |-> TRUE, ent |-> DBFind(tdocs, k)]]
    /\ wpc' = "apply"
    /\ tret' = NoTRet
    /\ UNCHANGED <<tcol, tmode, tdocs, cache, ppc, plist, pkey, pent>>
    /\ cacheMu' = NoAccess
    /\ UNCHANGED nonTblVars

\* CachedTable.callback lines 109-124: delete(t.cache, *key) when the entry
\* was not found, t.cache[*key] = entry otherwise
CallbackApply ==
    /\ wpc = "apply"
    /\ cache' = [cache EXCEPT ![wkey] = went]
    /\ wpc' = "notify"
    /\ tret' = NoTRet
    /\ UNCHANGED <<tseen, tcol, tmode, tdocs, tev, wkey, went, ppc, plist, pkey, pent>>
    /\ cacheMu' = IF went = NoDoc THEN Access("delete", "none")
                                  ELSE Access("write", "Lock")
    /\ UNCHANGED nonTblVars

\* CachedTable.callback line 127: t.NotifyCallback(wKey)
CallbackForward ==
    /\ wpc = "notify"
    /\ wpc' = "idle"
    /\ tret' = TReturns("cached", "NotifyCallback", wkey, "none", 0)
    /\ wkey' = 0
    /\ went' = NoDoc
    /\ UNCHANGED <<tseen, tcol, tmode, tdocs, cache, tev, ppc, plist, pkey, pent>>
    /\ cacheMu' = NoAccess
    /\ UNCHANGED nonTblVars

\* zero-valued tables over an empty collection
InitTable ==
    /\ tcol = [v \in Tables |-> FALSE]
    /\ tmode = "none"
    /\ tdocs = [k \in TKeys |-> NoDoc]
    /\ cache = [k \in TKeys |-> NoDoc]
    /\ tev = {}
    /\ wpc = "idle"
    /\ wkey = 0
    /\ went = NoDoc
    /\ ppc = "none"
    /\ plist = {}
    /\ pkey = 0
    /\ pent = NoDoc
    /\ tseen = [k \in TKeys |-> [seen |-> FALSE, ent |-> NoDoc]]
    /\ cacheMu = NoAccess
    /\ tret = NoTRet

NextTable ==
    \/ \E v \in Tables, mode \in {"eager", "readThrough"} : TableInitialize(v, mode)
    \/ \E v \in Tables, k \in TKeys, e \in TValues : TableInsert(v, k, e)
    \/ \E v \in Tables, k \in TKeys, e \in TValues : TableLocate(v, k, e)
    \/ \E v \in Tables, k \in TKeys, e \in TValues : TableUpdate(v, k, e)
    \/ \E k \in TKeys : TableFind(k)
    \/ \E k \in TKeys : TableCachedFind(k)
    \/ \E k \in TKeys : TableDBFind(k)
    \/ \E v \in Tables, f \in TValues \cup {NilFilter} : TableFindMany(v, f)
    \/ \E f \in TValues \cup {NilFilter} : TableFindManyWithOpts(f)
    \/ \E v \in Tables, f \in TValues \cup {NilFilter} : TableCount(v, f)
    \/ \E v \in Tables, f \in TValues \cup {NilFilter} : TableDeleteByFilter(v, f)
    \/ \E v \in Tables, k \in TKeys : TableDeleteKey(v, k)
    \/ \E k \in TKeys : PreloadFind(k)
    \/ PreloadStore
    \/ \E k \in TKeys : CallbackDBFind(k)
    \/ CallbackApply
    \/ CallbackForward

(***************************************************************************)
(* sync: the package-level singletons of one process (ownerTable,          *)
(* providerTable, lockTables) and the calls that set them up               *)
(***************************************************************************)
LockTableNames == 1..NumLockTables
NoTable == 0
NoGRet == [op |-> "none", err |-> "none", inst |-> NoTable]
GReturns(op, e, i) == [op |-> op, err |-> e, inst |-> i]

\* a call that took the mutex mu (defer Unlock) and made the store calls
\* of the set calls before it returned
Holding(mu, calls) == [mu |-> mu, calls |-> calls]
NoMutex == Holding("none", {})

\* what the store can refuse during allocateOwner: the Watch or the InsertOne
AllocateFailures == {"none", "Watch", "InsertOne"}

OwnerTableSetWhenReady(st) == st = "ready"

\* InitializeOwnerWithUpdateInterval line 184: ownerTable != nil
OwnerTableSet(st) == st # "nil"

\* InitializeOwnerWithUpdateInterval with allocateOwner: ownerTable is assigned
\* before allocateOwner runs and stays assigned when that fails; the owner
\* record and the heartbeat goroutine exist only when nothing failed
InitializeOwnerWithUpdateInterval(fail) ==
    /\ IF OwnerTableSet(ownerTable)
          THEN /\ gret' = GReturns("InitializeOwner", "AlreadyExists", NoTable)
               /\ gheld' = Holding("ownerTableInit", {})
               /\ UNCHANGED <<ownerTable, ownerRecs, heartbeats>>
          ELSE /\ ownerTable' = IF fail = "none" THEN "ready" ELSE "failed"
               /\ gheld' = Holding("ownerTableInit",
                                   IF fail = "Watch" THEN {"Watch"}
                                                     ELSE {"Watch", "InsertOne"})
               /\ ownerRecs' = IF fail = "none" THEN ownerRecs + 1 ELSE ownerRecs
               /\ heartbeats' = IF fail = "none" THEN heartbeats + 1 ELSE heartbeats
               /\ gret' = GReturns("InitializeOwner",
                                   IF fail = "none" THEN "nil" ELSE "StoreError", NoTable)
    /\ UNCHANGED <<octxDone, providerTable, ptCreated, lockTables>>
    /\ UNCHANGED nonRegVars

\* the context given to InitializeOwner is cancelled
OwnerCancel ==
    /\ OwnerTableSet(ownerTable)
    /\ ~octxDone
    /\ octxDone' = TRUE
    /\ gret' = NoGRet
    /\ gheld' = NoMutex
    /\ UNCHANGED <<ownerTable, ownerRecs, heartbeats, providerTable, ptCreated,
                   lockTables>>
    /\ UNCHANGED nonRegVars

ReleaseSelfOwnershipNever(recs) == recs

\* allocateOwner line 144: DeleteOne of t.key under context.Background(),
\* which removes the record when it is there (NotFound is only logged)
ReleaseSelfOwnership(recs) == IF recs > 0 THEN recs - 1 ELSE recs

\* allocateOwner lines 139-148: on ctx.Done() the heartbeat goroutine deletes
\* the owner record of the process and returns
HeartbeatExit ==
    /\ octxDone
    /\ heartbeats > 0
    /\ heartbeats' = heartbeats - 1
    /\ ownerRecs' = ReleaseSelfOwnership(ownerRecs)
    /\ gret' = NoGRet
    /\ gheld' = NoMutex
    /\ UNCHANGED <<ownerTable, octxDone, providerTable, ptCreated, lockTables>>
    /\ UNCHANGED nonRegVars

\* LocateProviderTableWithName: a table with its observer set, its two
\* watches and its replay goroutine is built and returned whenever
\* providerTable is nil, and nothing in the package assigns providerTable
LocateProviderTableWithName(ok) ==
    /\ IF providerTable # NoTable
          THEN /\ gret' = GReturns("LocateProviderTable", "nil", providerTable)
               /\ UNCHANGED ptCreated
          ELSE IF ~OwnerTableSet(ownerTable)
          THEN /\ gret' = GReturns("LocateProviderTable", "InvalidArgument", NoTable)
               /\ UNCHANGED ptCreated
          ELSE IF ~ok
          THEN /\ gret' = GReturns("LocateProviderTable", "StoreError", NoTable)
               /\ UNCHANGED ptCreated
          ELSE /\ ptCreated < MaxTables
               /\ ptCreated' = ptCreated + 1
               /\ gret' = GReturns("LocateProviderTable", "nil", ptCreated')
    /\ gheld' = NoMutex
    /\ UNCHANGED <<ownerTable, octxDone, ownerRecs, heartbeats, providerTable,
                   lockTables>>
    /\ UNCHANGED nonRegVars

\* LocateLockTable: the table of a name is built once and kept in lockTables
LocateLockTableByName(n, ok) ==
    /\ IF lockTables[n] # NoTable
          THEN /\ gret' = GReturns("LocateLockTable", "nil", lockTables[n])
               /\ gheld' = Holding("muLockTables", {})
               /\ UNCHANGED lockTables
          ELSE IF ~OwnerTableSet(ownerTable)
          THEN /\ gret' = GReturns("LocateLockTable", "InvalidArgument", NoTable)
               /\ gheld' = Holding("muLockTables", {})
               /\ UNCHANGED lockTables
          ELSE IF ~ok
          THEN /\ gret' = GReturns("LocateLockTable", "StoreError", NoTable)
               /\ gheld' = Holding("muLockTables", {"Watch"})
               /\ UNCHANGED lockTables
          ELSE /\ lockTables' = [lockTables EXCEPT ![n] = n]
               /\ gret' = GReturns("LocateLockTable", "nil", n)
               /\ gheld' = Holding("muLockTables", {"Watch"})
    /\ UNCHANGED <<ownerTable, octxDone, ownerRecs, heartbeats, providerTable,
                   ptCreated>>
    /\ UNCHANGED nonRegVars

\* the package variables before any call
InitRegistry ==
    /\ ownerTable = "nil"
    /\ octxDone = FALSE
    /\ ownerRecs = 0
    /\ heartbeats = 0
    /\ providerTable = NoTable
    /\ ptCreated = 0
    /\ lockTables = [n \in LockTableNames |-> NoTable]
    /\ gret = NoGRet
    /\ gheld = NoMutex

NextRegistry ==
    \/ \E fail \in AllocateFailures : InitializeOwnerWithUpdateInterval(fail)
    \/ OwnerCancel
    \/ HeartbeatExit
    \/ \E ok \in BOOLEAN : LocateProviderTableWithName(ok)
    \/ \E n \in LockTableNames, ok \in BOOLEAN : LocateLockTableByName(n, ok)

(***************************************************************************)
(* table watch to pipeline: the change stream of a Table, the key objects  *)
(* mongoCollection.Watch decodes, and the pipeline of one controller       *)
(***************************************************************************)
DocKeys == 1..NumDocKeys
KeyObjects == 1..MaxKeyObjects

\* key objects allocated so far
Allocated == {o \in KeyObjects : kobj[o] # NoKey}

\* Watch line 295: key = reflect.New(keyType.Elem()).Interface(), a pointer
\* to a newly allocated K for every event
NewKeyObject == CHOOSE o \in KeyObjects \ Allocated :
                   \A x \in KeyObjects \ Allocated : o <= x

\* equality of two keys of p.pMap: the keys are interface values that hold
\* a *K, and == on pointers is identity, whatever the keys ko point to
SameKey(ko, a, b) == a = b

\* p.pMap.LoadOrStore(k, nil): loaded when an equal key is in the map
LoadedKey(ko, m, o) == \E x \in m : SameKey(ko, x, o)

\* the collection changes the document of key d: the change stream holds
\* one more event (while the model has a key object left for it)
DocChange(d) ==
    /\ Len(kEvents) + Cardinality(Allocated) < MaxKeyObjects
    /\ kEvents' = Append(kEvents, d)
    /\ UNCHANGED <<kobj, kMap, kChannel, kpc, ksend>>
    /\ UNCHANGED nonWkVars

\* Watch lines 268-311, Table.callback, ManagerImpl.NotifyCallback and
\* Pipeline.Enqueue lines 41-52: the next event is decoded into a new key
\* object, which goes through the callback to Enqueue and its LoadOrStore
WatchNext ==
    /\ kpc = "next"
    /\ kEvents # <<>>
    /\ kEvents' = Tail(kEvents)
    /\ kobj' = [kobj EXCEPT ![NewKeyObject] = Head(kEvents)]
    /\ IF LoadedKey(kobj', kMap, NewKeyObject)
          THEN UNCHANGED <<kMap, kpc, ksend>>
          ELSE /\ kMap' = kMap \cup {NewKeyObject}
               /\ kpc' = "send"
               /\ ksend' = NewKeyObject
    /\ UNCHANGED kChannel
    /\ UNCHANGED nonWkVars

\* Pipeline.Enqueue line 55 on the watch goroutine: p.pChannel <- k
WatchSend ==
    /\ kpc = "send"
    /\ Len(kChannel) < bufferLength
    /\ kChannel' = Append(kChannel, ksend)
    /\ kpc' = "next"
    /\ ksend' = NoKey
    /\ UNCHANGED <<kobj, kEvents, kMap>>
    /\ UNCHANGED nonWkVars

\* Pipeline.initialize lines 69-77: the loop receives a key, deletes it from
\* p.pMap and reconciles it
WorkerTake ==
    /\ kChannel # <<>>
    /\ kChannel' = Tail(kChannel)
    /\ kMap' = {x \in kMap : ~SameKey(kobj, x, Head(kChannel))}
    /\ UNCHANGED <<kobj, kEvents, kpc, ksend>>
    /\ UNCHANGED nonWkVars

InitWatchKeys ==
    /\ kobj = [o \in KeyObjects |-> NoKey]
    /\ kEvents = <<>>
    /\ kMap = {}
    /\ kChannel = <<>>
    /\ kpc = "next"
    /\ ksend = NoKey

NextWatchKeys ==
    \/ \E d \in DocKeys : DocChange(d)
    \/ WatchNext
    \/ WatchSend
    \/ WorkerTake

(***************************************************************************)
(* Specifications                                                          *)
(***************************************************************************)
Init ==
    /\ InitPipeline /\ InitLock /\ InitStore /\ InitObserver /\ InitRate
    /\ InitManager /\ InitTable /\ InitRegistry /\ InitWatchKeys

SpecWatchKeys == Init /\ [][NextWatchKeys]_vars

SpecRegistry == Init /\ [][NextRegistry]_vars

\* the heartbeat goroutine is scheduled: once ctx.Done() is readable its
\* select takes that case
FairSpecRegistry == SpecRegistry /\ WF_vars(HeartbeatExit)

SpecTable == Init /\ [][NextTable]_vars

SpecManager == Init /\ [][NextManager]_vars

SpecRate == Init /\ [][NextRate]_vars

SpecObserver == Init /\ [][NextObserver]_vars

SpecStore == Init /\ [][NextStore]_vars

SpecLock == Init /\ [][NextLock]_vars

SpecPipeline == Init /\ [][NextPipeline]_vars

\* the Go scheduler runs every goroutine that can take a step; callers from
\* outside and the cancellation are under no obligation
FairPipeline ==
    /\ \A e \in Enqueuers :
          /\ WF_vars(EnqueueCheck(e))
          /\ WF_vars(EnqueueLoadOrStore(e))
          /\ WF_vars(EnqueueSend(e))
          /\ WF_vars(EnqueueAbsorbed(e))
    /\ \A t \in Timers : WF_vars(TimerWake(t))
    /\ WF_vars(LoopStop)
    /\ WF_vars(LoopReceive)
    /\ WF_vars(LoopDelete)
    /\ WF_vars(PipeReconcile)
    /\ WF_vars(LoopHandle)

FairSpecPipeline == SpecPipeline /\ FairPipeline

(***************************************************************************)
(* Claims about the pipeline                                               *)
(***************************************************************************)
\* number of copies of key k in the channel or about to be sent to it
Copies(k) ==
    Cardinality({i \in 1..Len(pChannel) : pChannel[i] = k})
    + Cardinality({e \in Enqueuers : epc[e] = "send" /\ ekey[e] = k})

\* C2: an Enqueue(k) that arrives while k is queued is absorbed, so the
\* channel never holds the same key twice, and no second copy is on its way
C2_ChannelHoldsKeyOnce == \A k \in PKeys : Copies(k) <= 1

\* an Enqueue(k) has just been absorbed while k sits in the channel
C2_Witness ==
    \E e \in Enqueuers :
        /\ epc[e] = "absorbed"
        /\ ekey[e] \in SeqToSet(pChannel)

\* C3: after reconcile(k) returned an error, reconcile(k) is invoked again
\* while the context is live
C3_RetryAfterError ==
    \A k \in PKeys :
        (lpc = "handle" /\ lres = "err" /\ lkey = k)
            ~> ((lpc = "reconcile" /\ lkey = k) \/ ctxDone)

C5_EnqueueNeverWaits ==
    \A e \in Enqueuers : epc[e] = "send" => ChanHasRoom(pChannel)

\* C14: an Enqueue(k) call that reaches its check with the context cancelled
\* returns the context's error at once and changes neither p.pMap nor
\* p.pChannel, whoever makes it: a caller, the loop or a deferred re-enqueue
C14_EnqueueAfterCancel ==
    [][\A e \in Enqueuers :
          (ctxDone /\ epc[e] = "check" /\ epc'[e] # "check")
             => /\ eret' = [e |-> e, err |-> "ctx"]
                /\ epc'[e] = "idle"
                /\ pMap' = pMap
                /\ pChannel' = pChannel]_vars

\* a deferred re-enqueue whose sleep ended after the cancellation has just
\* returned the context's error
C14_Witness ==
    /\ ctxDone
    /\ \E t \in Timers : eret = [e |-> t, err |-> "ctx"]

\* C24: while the context is live, every key in the membership set is
\* eventually received from the channel by the dequeue loop, which then hands
\* it to reconcile
C24_MemberEventuallyDequeued ==
    \A k \in PKeys :
        (k \in pMap) ~> ((lpc = "delete" /\ lkey = k) \/ ctxDone)

\* C25: an Enqueue(k) that returns nil is never lost by coalescing: whether
\* it put k in the channel or was absorbed because k was already a member,
\* the loop dequeues k for a reconcile(k) that starts after the call began,
\* unless the context is cancelled
C25_NoNotificationLost ==
    \A k \in PKeys :
        (\/ k \in SeqToSet(pChannel)
         \/ \E e \in Enqueuers : epc[e] = "absorbed" /\ ekey[e] = k /\ k \in pMap)
            ~> ((lpc = "delete" /\ lkey = k) \/ ctxDone)

\* C26: the Enqueue the dequeue loop makes after a reconcile error never
\* leaves the loop waiting on its own channel: the loop is never at the send
\* with the channel full
C26_LoopNeverBlocksItself ==
    ~(lpc = "enqueue" /\ epc[Loop] = "send" /\ ~ChanHasRoom(pChannel))

(***************************************************************************)
(* Claims about the lock table                                             *)
(***************************************************************************)
\* C37: the dequeue loop never takes a key that is not in the membership
\* set: when the loop has received a key from the channel and has not yet
\* deleted it, the key is in the set
C37_DequeuedKeyInSet ==
    lpc = "delete" => lkey \in pMap

\* the loop has just taken a key that another Enqueue call is being made for
C37_Witness ==
    /\ lpc = "delete"
    /\ lkey \in pMap
    /\ \E e \in Producers : epc[e] = "loadOrStore" /\ ekey[e] = lkey

\* C1: at most one lock record per key exists at any time, and a TryAcquire(k)
\* made while a record for k exists fails with already-exists, returns no
\* handle and leaves the record in place
C1_MutualExclusion ==
    /\ [](\A k \in LockKeys :
            Cardinality({r \in lockCol : r.key = k}) <= 1)
    /\ [][\A p \in Procs, k \in LockKeys :
            (TryAcquire(p, k) /\ KeyTaken(lockCol, k))
               => (/\ ret' = Returns(p, k, "AlreadyExists")
                   /\ hnd' = hnd
                   /\ lockCol' = lockCol)
         ]_vars

\* process p holds the lock on k and the TryAcquire(k) of another process
\* has just failed with already-exists
C1_Witness ==
    \E p \in Procs, q \in Procs, k \in LockKeys :
        /\ p # q
        /\ [key |-> k, owner |-> p] \in lockCol
        /\ hnd[p][k] > 0
        /\ ret = Returns(q, k, "AlreadyExists")
        /\ hnd[q][k] = 0

\* C39: while a process whose owner registry was initialized is alive, its
\* own owner record is in the owner collection
C39_SelfRecordWhileAlive ==
    \A p \in Procs : (running[p] /\ ownerState[p] = "ready") => p \in ownerCol

\* C15: a step in which a process closes a handle it got from TryAcquire(k)
\* leaves no lock record for k, and in the state it leads to TryAcquire(k)
\* succeeds for every process whose owner is set
C15_CloseFreesKey ==
    [][\A p \in Procs, k \in LockKeys :
          Close(p, k)
             => /\ ~KeyTaken(lockCol', k)
                /\ \A q \in Procs :
                      ~OwnerUnset(ownerState'[q])
                         => ~TryAcquireCollides(lockCol', k)]_vars

\* a handle has just been closed with its record deleted, and a second
\* process stands ready to acquire the key
C15_Witness ==
    \E p, q \in Procs, k \in LockKeys :
       /\ p # q
       /\ ret = Returns(p, k, "nil")
       /\ running[q] /\ located[q] /\ ownerState[q] = "ready"
       /\ TryAcquireResult(q, k) = "acquired"

\* C27: the owner named in a lock record has its record in the owner
\* collection at the instant the lock record is created
C27_LockOwnerPresentAtCreation ==
    [][\A r \in lockCol' \ lockCol : r.owner \in ownerCol]_vars

\* C28: closing a lock handle removes no lock record but the one the handle's
\* own TryAcquire created: a record another process has acquired for the key
\* since owner cleanup removed the handle's record survives the close
C28_CloseRemovesOwnRecordOnly ==
    [][\A p \in Procs, k \in LockKeys :
          Close(p, k) => \A r \in lockCol \ lockCol' : r.owner = p]_vars

\* C29: the owner-release handler of a lock table, run for the delete event
\* of an owner record, leaves no lock record that names the deleted owner
C29_OwnerReleaseDeletesLocks ==
    [][\A p \in Procs, o \in Procs :
          handleOwnerRelease(p, o) => ~\E r \in lockCol' : r.owner = o]_vars

\* the record of an owner that holds a handle on k was deleted, the watch of
\* a peer has handled the delete event, and no record for k is left
C29_Witness ==
    \E p, o \in Procs, k \in LockKeys :
       /\ p # o
       /\ p \in Watchers
       /\ o \notin ownerCol
       /\ ownerState[o] = "ready"
       /\ hnd[o][k] > 0
       /\ o \notin ownEv[p]
       /\ k \in lockEv[p]
       /\ cbpc[p] = "idle"
       /\ ~KeyTaken(lockCol, k)

(***************************************************************************)
(* Claims about the store                                                  *)
(***************************************************************************)
\* C6: UpdateOne(key, value, upsert = false) on a key that matches no document
\* returns not-found and creates no document
C6_UpdateOneNotFound ==
    [][\A k \in StoreKeys, v \in Values :
          (UpdateOne(k, v, FALSE) /\ docs[k] = NoDoc)
             => (sret' = SReturns("UpdateOne", k, "NotFound") /\ docs' = docs)
      ]_vars
C22_ReplayConverges ==
    (/\ ptLocated
     /\ provEv = {}
     /\ rlist = {}
     /\ \A t \in CallbackThreads : tpc[t] = "idle")
        => providers = {k \in ExtKeys : Count(provCol, k) > 0}

(***************************************************************************)
(* Claims about the rate limiter                                           *)
(***************************************************************************)
RECURSIVE SumNominal(_)
SumNominal(ls) ==
    IF ls = {} THEN 0
    ELSE LET l == CHOOSE x \in ls : TRUE IN lrate[l] + SumNominal(ls \ {l})

\* C9: with a budget > 0, every active limiter has the effective rate
\* max(1, floor(nominal * budget / S)), S being the sum of the nominal rates
\* of the active limiters
C9_ProportionalShare ==
    rate > 0 =>
       \A l \in Objects(inUse) :
          limit[l] = IF ScaledExact(lrate[l], rate, SumNominal(Objects(inUse))) < 1
                        THEN 1
                        ELSE ScaledExact(lrate[l], rate, SumNominal(Objects(inUse)))

\* C10: when no SetInUse call on it is in progress, a registered limiter is
\* in the manager's active set exactly when its usage count is at least 1
C10_ActiveIffUsed ==
    \A l \in Lims :
       (/\ limiters[l.key] = l.gen
        /\ \A c \in Consumers : clim[c] = l => cpc[c] = "holding")
          => (usage[l] >= 1 <=> inUse[l.key] = l.gen)

\* C11: every limiter whose usage count is 0, with no SetInUse call on it in
\* progress, has its nominal rate as effective rate
C11_InactiveHasNominal ==
    \A l \in Lims :
       (/\ l.gen <= created[l.key]
        /\ usage[l] = 0
        /\ \A c \in Consumers : clim[c] # l)
          => limit[l] = lrate[l]

RECURSIVE SumEffective(_)
SumEffective(ls) ==
    IF ls = {} THEN 0
    ELSE LET l == CHOOSE x \in ls : TRUE IN limit[l] + SumEffective(ls \ {l})

\* C34: with a non-empty active set and a budget > 0, the effective rates of
\* the active limiters add up to the budget up to rounding: the sum differs
\* from the budget by less than the number of active limiters
C34_ActiveRatesSumToBudget ==
    (rate > 0 /\ Objects(inUse) # {})
       => /\ SumEffective(Objects(inUse)) - rate < Cardinality(Objects(inUse))
          /\ rate - SumEffective(Objects(inUse)) < Cardinality(Objects(inUse))

\* C35: a notification made through a Limiter object that is no longer the
\* one registered under its key changes neither the active set nor the
\* effective rate of any registered limiter
C35_RemovedHandleChangesNothing ==
    [][\A c \in Consumers :
          (UpdateInUse(c) /\ limiters[clim[c].key] # clim[c].gen)
             => /\ inUse' = inUse
                /\ \A r \in Objects(limiters) : limit'[r] = limit[r]]_vars

\* C18: NewLimiter(key, rate, burst) with burst < 1, for a key that has no
\* limiter, returns invalid-argument and registers no limiter
C18_NewLimiterInvalidBurst ==
    [][\A k \in RateKeys, r \in RateArgs, b \in BurstArgs :
          (b < 1 /\ r > 0 /\ limiters[k] = 0 /\ NewLimiter(k, r, b))
             => /\ rret' = RReturns("NewLimiter", "InvalidArgument")
                /\ limiters' = limiters]_vars

(***************************************************************************)
(* Claims about the manager                                                *)
(***************************************************************************)
\* C12: once Register(name, controller) has returned nil and the goroutine it
\* started has ended, every key that ReconcilerGetAllKeys returned has been
\* enqueued on the pipeline of that controller
C12_RegisterReplaysAllKeys ==
    \A c \in MNames :
       (mcontrollers[c] = "ready" /\ bpc[c] \in {"done", "panicked"})
          => bsnap[c] \subseteq menq[c]

\* C13: once a NotifyCallback(key) call has ended, the key has been enqueued
\* on the pipeline of every controller that was registered when it began
C13_NotifyReachesEveryController ==
    npc \in {"returned", "panicked"} => nstart \subseteq nvisited

\* C32: a NotifyCallback that runs while a Register is under way never uses
\* a controller entry whose pipeline has not been created: every entry it
\* visits in m.controllers has its pipeline
C32_VisibleOnlyWithPipeline ==
    [][\A c \in MNames : NotifyVisit(c) => mcontrollers[c] = "ready"]_vars

\* C38: a change event (NotifyCallback) or a bootstrap enqueue (Register's
\* goroutine) that reaches the manager after its context was cancelled is
\* dropped, and the process does not crash
C38_DroppedAfterCancel ==
    [][(/\ mctxDone
        /\ \/ \E c \in MNames : mcontrollers[c] = "ready" /\ NotifyVisit(c)
           \/ \E c \in MNames, k \in MKeys : ReplayEnqueue(c, k))
          => ~mpanic']_vars

(***************************************************************************)
(* Claims about the typed tables                                           *)
(***************************************************************************)
\* C16: every operation of the direct and of the cached table, other than
\* Initialize, returns invalid-argument when the table is not initialized
C16_UninitializedIsInvalidArgument ==
    (tret.op \notin {"none", "Initialize", "NotifyCallback"} /\ ~tcol[tret.v])
       => tret.err = "InvalidArgument"

C23_CacheMatchesLastEvent ==
    (/\ tmode = "eager"
     /\ wpc = "idle"
     /\ ppc = "done")
        => \A k \in TKeys : tseen[k].seen => cache[k] = tseen[k].ent

\* C30: every access to the cache map of a cached table is made under its
\* read-write mutex: a read holds the shared lock, and a store or a removal
\* of a key, also of one whose document is gone from the store, holds the
\* exclusive lock
C30_CacheAccessUnderMutex ==
    /\ cacheMu.acc = "read" => cacheMu.mu \in {"RLock", "Lock"}
    /\ cacheMu.acc \in {"write", "delete"} => cacheMu.mu = "Lock"

\* C31: the callback of a cached table has finished the cache mutation of
\* an event on key k when it forwards k to the reconciliation manager, so the
\* controller invoked on account of the event sees the post-event cache: at
\* the forwarding, when the store has not changed since the callback read it,
\* the cache holds for k the entry (or the absence) the callback read
C31_CacheUpdatedBeforeNotify ==
    (/\ wpc = "notify"
     /\ wkey \notin tev
     /\ went = tdocs[wkey])
        => cache[wkey] = went

(***************************************************************************)
(* Claims about the package-level singletons                               *)
(***************************************************************************)
\* C19: the provider table is a singleton of the process: at most one
\* ProviderTable, with its subscriptions and its observer set, is ever built,
\* and every LocateProviderTable call returns that one
C19_ProviderTableSingleton ==
    /\ ptCreated <= 1
    /\ (gret.op = "LocateProviderTable" /\ gret.err = "nil") => gret.inst = 1

\* C20: an InitializeOwner call made after a first one returns already-exists
\* and adds neither an owner record nor a heartbeat goroutine
C20_InitializeOwnerOnce ==
    [][(ownerTable # "nil" /\ \E fail \in AllocateFailures :
                                 InitializeOwnerWithUpdateInterval(fail))
          => /\ gret' = GReturns("InitializeOwner", "AlreadyExists", NoTable)
             /\ ownerRecs' = ownerRecs
             /\ heartbeats' = heartbeats
             /\ ownerTable' = ownerTable]_vars

\* a second InitializeOwner has just returned already-exists while the owner
\* record and the heartbeat of the first are in place
C20_Witness ==
    /\ gret = GReturns("InitializeOwner", "AlreadyExists", NoTable)
    /\ ownerTable = "ready"
    /\ ownerRecs = 1
    /\ heartbeats = 1

\* C36: no call makes a store call while it holds an in-process mutex: a call
\* that took the owner-registry initialization mutex or the lock-table
\* registry mutex made no store call before it released it
C36_NoStoreCallUnderMutex ==
    gheld.mu # "none" => gheld.calls = {}

\* C40: an InitializeOwner call that fails leaves the owner registry
\* uninitialized, so that the test of TryAcquire and CreateProvider still
\* answers invalid-argument, and an InitializeOwner call returns
\* already-exists only when an earlier call succeeded
C40_FailedInitializeLeavesNothing ==
    /\ (gret.op = "InitializeOwner" /\ gret.err = "StoreError")
          => OwnerUnset(ownerTable)
    /\ (gret.op = "InitializeOwner" /\ gret.err = "AlreadyExists")
          => ownerTable = "ready"

\* C21: once the context of the owner registry is cancelled, the heartbeat
\* goroutine deletes the owner record of the process and exits: eventually no
\* record of the owner is left in the owner collection and no heartbeat runs
C21_CancelDeletesOwnerRecord ==
    (octxDone /\ heartbeats > 0) ~> (ownerRecs = 0 /\ heartbeats = 0)

\* the context was cancelled while the owner record was in place, and the
\* heartbeat goroutine has deleted the record and returned
C21_Witness ==
    /\ octxDone
    /\ ownerTable = "ready"
    /\ ownerRecs = 0
    /\ heartbeats = 0

(***************************************************************************)
(* Claims about the keys a table's watch hands to the pipeline             *)
(***************************************************************************)
\* C33: coalescing is by the value of the key: the pipeline never holds two
\* queued work items for the same document key, although every event reaches
\* Enqueue as a newly decoded key object
C33_CoalescedByKeyValue ==
    \A d \in DocKeys :
       Cardinality({i \in 1..Len(kChannel) : kobj[kChannel[i]] = d})
          + (IF kpc = "send" /\ kobj[ksend] = d THEN 1 ELSE 0) <= 1
====
